---- MODULE Spec2Model ----
(***************************************************************************)
(* A model of docker-deploy-app: the deployment lifecycle handlers over    *)
(* the relational store (DeploymentsHandler, StacksHandler and the         *)
(* background performDeployment goroutine) and the Newt compose injector   *)
(* (NewtInjector), the backup pipeline (backup.Manager and BackupsHandler  *)
(* with their background goroutines) and the encrypting readers.           *)
(***************************************************************************)
EXTENDS Integers, Sequences, FiniteSets, Bags, TLC

VARIABLES
    now,          \* wall clock in seconds (time.Now().Unix())
    deployments,  \* table deployments: id -> row
    logs,         \* table deployment_logs, in insertion (autoincrement) order
    tasks,        \* bag of goroutines running performDeployment
    reqs,         \* bag of HTTP requests in flight
    issued,       \* number of requests accepted so far
    last,         \* the response sent by the step just taken, if it sent one
    injCfg,       \* NewtInjector.config
    injIn,        \* compose text handed to the last ProcessCompose pass
    injOut,       \* compose text that pass returned
    injDoc,       \* the parsed DockerCompose the last call worked on, after it
    injRes,       \* the ValidationResult the last call returned
    injOp,        \* the injector call made last
    injPass,      \* ProcessCompose passes made so far, each on the last output
    backups,      \* table backups: id -> row
    archives,     \* files <storage>/<id>.tar.gz: id -> what the file holds
    staging,      \* IDs whose staging directory <storage>/<id> exists
    keyfiles,     \* IDs with a file <keyStorage>/keys/<id>.key
    scratch,      \* directories <storage>/restore/<id>: id -> what was extracted
    btasks,       \* goroutines running performBackup
    rtasks,       \* goroutines running performRestore
    bkIssued,     \* backup and restore requests made so far
    bkLast,       \* the answer to the request just made, if the step was one
    encIn,        \* what the readers were made from: data, key, IV, decrypter's key
    encRd,        \* the EncryptedReader: how far its source has been read, its stream
    decRd,        \* the DecryptedReader: ivRead, its stream, bytes received and returned
    nmCfg,        \* the DeploymentConfig a create request was decoded into
    nmRes,        \* what Create made of it: Validate's error and the response
    clnNow,       \* the time CleanupOldBackups runs at
    clnRet,       \* its RetentionConfig
    clnIn,        \* the backups table when it started
    clnTbl,       \* the backups table it works on
    clnPc,        \* the statement it executes next
    monArrays,    \* backing arrays of m.subscribers[stackName], by capacity
    monSubs,      \* m.subscribers[stackName]: its backing array and length
    monChans,     \* the channels Subscribe made: closed, events buffered
    monPub,       \* the publishEvent call of each publishing goroutine
    isRunning,    \* SyncService.isRunning
    stopClosed,   \* whether SyncService.stopChan has been closed
    syncLoops,    \* syncLoop goroutines that have not returned
    starting,     \* StartPeriodicSync calls past their check, by position
    syncLast      \* how the call or loop turn just made ended

lifeVars == <<now, deployments, logs, tasks, reqs, issued, last>>
injVars == <<injCfg, injIn, injOut, injDoc, injRes, injOp, injPass>>
bkVars == <<backups, archives, staging, keyfiles, scratch, btasks, rtasks,
            bkIssued, bkLast>>
encVars == <<encIn, encRd, decRd>>
nameVars == <<nmCfg, nmRes>>
cleanVars == <<clnNow, clnRet, clnIn, clnTbl, clnPc>>
monVars == <<monArrays, monSubs, monChans, monPub>>
syncVars == <<isRunning, stopClosed, syncLoops, starting, syncLast>>
vars == <<now, deployments, logs, tasks, reqs, issued, last,
          injCfg, injIn, injOut, injDoc, injRes, injOp, injPass,
          backups, archives, staging, keyfiles, scratch, btasks, rtasks,
          bkIssued, bkLast, encIn, encRd, decRd, nmCfg, nmRes,
          clnNow, clnRet, clnIn, clnTbl, clnPc,
          monArrays, monSubs, monChans, monPub,
          isRunning, stopClosed, syncLoops, starting, syncLast>>

\* What the steps of one component leave alone: the other components' state.
besidesLife == <<injVars, bkVars, encVars, nameVars, cleanVars, monVars, syncVars>>
besidesInj == <<lifeVars, bkVars, encVars, nameVars, cleanVars, monVars, syncVars>>
besidesBk == <<lifeVars, injVars, encVars, nameVars, cleanVars, monVars, syncVars>>
besidesEnc == <<lifeVars, injVars, bkVars, nameVars, cleanVars, monVars, syncVars>>
besidesName == <<lifeVars, injVars, bkVars, encVars, cleanVars, monVars, syncVars>>
besidesClean == <<lifeVars, injVars, bkVars, encVars, nameVars, monVars, syncVars>>
besidesMon == <<lifeVars, injVars, bkVars, encVars, nameVars, cleanVars, syncVars>>
besidesSync == <<lifeVars, injVars, bkVars, encVars, nameVars, cleanVars, monVars>>

----------------------------------------------------------------------------
(* Bounds of the model *)

\* Seconds the clock can show; a deployment ID is "deploy_<second>".
MaxClock == 2
\* HTTP requests in flight at once.
MaxReqs == 2
\* Rows of the backups table a clean-up finds.
MaxCleaned == 2
\* Channels Subscribe makes in one run.
MaxChans == 3
\* StartPeriodicSync calls under way at once.
MaxStarts == 3
\* syncLoop goroutines alive at once.
MaxLoops == 3
\* Events a subscriber's channel buffers (100 in the program).
ChanCap == 2
\* performDeployment goroutines alive at once.
MaxTasks == 2
\* Requests the clients send in one run.
MaxRequests == 3
\* ProcessCompose passes applied to one document in a row.
MaxPasses == 2
\* User services in one compose file.
MaxUserServices == 1
\* Backup and restore requests made in one run.
MaxBkRequests == 2
\* Bits of a byte of the encryption model.
ByteBits == 1
\* Length up to which every byte sequence is encrypted.
MaxData == 3
\* Largest buffer handed to one Read.
MaxChunk == 3

\* aes.BlockSize
BlockSize == 16

\* Retries of the synthesized newt health check.
HealthRetries == 3

----------------------------------------------------------------------------
(* Deployment model: models/deployment.go *)

StatusPending == "pending"
StatusDeploying == "deploying"
StatusRunning == "running"
StatusStopped == "stopped"
StatusFailed == "failed"

DeploymentStatus ==
    {StatusPending, StatusDeploying, StatusRunning, StatusStopped, StatusFailed}

CanStart(status) == status = StatusStopped \/ status = StatusFailed

CanStop(status) == status = StatusRunning \/ status = StatusDeploying

CanRestart(status) == status = StatusRunning \/ status = StatusStopped

CanDelete(status) == status # StatusDeploying

\* Stack names a create request may carry (all pass DeploymentConfig.Validate).
StackNames == {"app1", "app2"}

\* fmt.Sprintf("https://%s.tunnel.example.com", deployment.StackName)
TunnelURLOf(stackName) == "https://" \o stackName \o ".tunnel.example.com"

----------------------------------------------------------------------------
(* The relational store: database/database.go *)

\* deployment_logs.deployment_id REFERENCES deployments(id), foreign keys on,
\* no ON DELETE action: a deployment row that still has log rows cannot be
\* deleted, and a log row cannot be inserted for a missing deployment.
HasLogs(lg, id) == \E i \in 1..Len(lg) : lg[i].deployment_id = id

\* UPDATE deployments SET status = $1, updated_at = $2 WHERE id = $3
\* (a blind write; no row, no effect). Rows carry the columns the handlers
\* below read back: stack_name, status, newt_injected, tunnel_url.
updateDeploymentStatus(tbl, id, status) ==
    IF id \in DOMAIN tbl THEN [tbl EXCEPT ![id].status = status] ELSE tbl

\* INSERT INTO deployment_logs (...) VALUES (...); the error is dropped.
addDeploymentLog(lg, tbl, id, level, message, t) ==
    IF id \in DOMAIN tbl
    THEN Append(lg, [deployment_id |-> id, log_level |-> level,
                     message |-> message, timestamp |-> t])
    ELSE lg

\* UPDATE deployments SET tunnel_url = $1 WHERE id = $2
updateTunnelURL(tbl, id, url) ==
    IF id \in DOMAIN tbl THEN [tbl EXCEPT ![id].tunnel_url = url] ELSE tbl

\* SELECT stack_name FROM deployments WHERE id = $1 ("" when no row)
getStackName(tbl, id) == IF id \in DOMAIN tbl THEN tbl[id].stack_name ELSE ""

\* SELECT id FROM deployments WHERE stack_name = $1 finds a row
StackNameExists(tbl, name) == \E d \in DOMAIN tbl : tbl[d].stack_name = name

\* INSERT INTO deployments as if stack_name were not declared UNIQUE.
InsertAllowedByIdOnly(tbl, id, name) == id \notin DOMAIN tbl

\* INSERT INTO deployments: id is the PRIMARY KEY, stack_name is UNIQUE
InsertAllowed(tbl, id, name) == id \notin DOMAIN tbl /\ ~StackNameExists(tbl, name)

DeleteLogsOf(lg, id) == SelectSeq(lg, LAMBDA e : e.deployment_id # id)

\* The rows of deployment_logs with deployment_id = id, in insertion order.
LogsOf(lg, id) == SelectSeq(lg, LAMBDA e : e.deployment_id = id)

\* SELECT ... WHERE deployment_id = $1 ORDER BY timestamp DESC LIMIT $2: the
\* results the query can give, the order of rows of one timestamp being the
\* engine's choice.
getRecentLogs(lg, id, limit) ==
    LET rows == LogsOf(lg, id)
        k == IF Len(rows) < limit THEN Len(rows) ELSE limit
    IN {[i \in 1..k |-> rows[pick[i]]] :
          pick \in {f \in [1..k -> 1..Len(rows)] :
                      /\ \A i, j \in 1..k : i # j => f[i] # f[j]
                      /\ \A i, j \in 1..k :
                            i < j => rows[f[i]].timestamp >= rows[f[j]].timestamp
                      /\ \A i \in 1..k, o \in 1..Len(rows) :
                            (\A j \in 1..k : f[j] # o)
                                => rows[f[i]].timestamp >= rows[o].timestamp}}

RemoveRow(tbl, id) == [d \in DOMAIN tbl \ {id} |-> tbl[d]]

----------------------------------------------------------------------------
(* Requests, goroutines and responses *)

DepIds == 1..MaxClock

NoResponse == [op |-> "none", id |-> 0, code |-> "none", from |-> "none", to |-> "none"]

Respond(op, id, code, from, to) ==
    [op |-> op, id |-> id, code |-> code, from |-> from, to |-> to]

One(x) == SetToBag({x})

StatusOf(tbl, id) == IF id \in DOMAIN tbl THEN tbl[id].status ELSE "none"

----------------------------------------------------------------------------
(* DeploymentsHandler: Create, Delete and the performDeployment goroutine *)

\* The format of stack names (isValidStackName).
LowerCase == {"a", "b", "c", "d", "e", "f", "g", "h", "i", "j", "k", "l", "m",
              "n", "o", "p", "q", "r", "s", "t", "u", "v", "w", "x", "y", "z"}
UpperCase == {"A", "B", "C", "D", "E", "F", "G", "H", "I", "J", "K", "L", "M",
              "N", "O", "P", "Q", "R", "S", "T", "U", "V", "W", "X", "Y", "Z"}
Digits == {"0", "1", "2", "3", "4", "5", "6", "7", "8", "9"}

CharAt(str, i) == SubSeq(str, i, i)

\* The loop over the characters and the test of name[0], without the test
\* of name[0].
isValidStackNameAnyFirst(name) ==
    IF Len(name) = 0 \/ Len(name) > 63 THEN FALSE
    ELSE \A i \in 1..Len(name) :
            CharAt(name, i) \in LowerCase \cup UpperCase \cup Digits \cup {"-", "_"}

isValidStackName(name) ==
    IF Len(name) = 0 \/ Len(name) > 63 THEN FALSE
    ELSE IF \E i \in 1..Len(name) :
               CharAt(name, i) \notin LowerCase \cup UpperCase \cup Digits \cup {"-", "_"}
    THEN FALSE
    ELSE CharAt(name, 1) \in LowerCase \cup UpperCase \cup Digits

\* Create, up to the stack-name uniqueness check; the ID is generated from
\* the clock right after the check passed.
CreateBegin(name, newt, templateFound) ==
    /\ BagCardinality(reqs) < MaxReqs
    /\ issued < MaxRequests
    /\ issued' = issued + 1
    /\ IF ~isValidStackName(name)
       THEN /\ last' = Respond("create", 0, "validation_error", "none", "none")
            /\ UNCHANGED reqs
       ELSE IF ~templateFound
       THEN /\ last' = Respond("create", 0, "not_found", "none", "none")
            /\ UNCHANGED reqs
       ELSE IF StackNameExists(deployments, name)
       THEN /\ last' = Respond("create", 0, "conflict", "none", "none")
            /\ UNCHANGED reqs
       ELSE /\ reqs' = reqs (+) One([op |-> "create", pc |-> "insert", id |-> now,
                                     stack_name |-> name, newt_injected |-> newt])
            /\ last' = NoResponse
    /\ UNCHANGED <<now, deployments, logs, tasks>>
    /\ UNCHANGED besidesLife

\* Create, the INSERT and the start of the background goroutine.
CreateInsert(r) ==
    /\ r.op = "create" /\ r.pc = "insert"
    /\ IF InsertAllowed(deployments, r.id, r.stack_name)
       THEN /\ BagCardinality(tasks) < MaxTasks
            /\ deployments' =
                 [d \in DOMAIN deployments \cup {r.id} |->
                    IF d = r.id
                    THEN [stack_name |-> r.stack_name, status |-> StatusPending,
                          newt_injected |-> r.newt_injected, tunnel_url |-> ""]
                    ELSE deployments[d]]
            /\ tasks' = tasks (+) One([pc |-> "deploying", id |-> r.id,
                                       stack_name |-> r.stack_name,
                                       newt_injected |-> r.newt_injected])
            /\ last' = Respond("create", r.id, "created", "none", StatusPending)
       ELSE /\ last' = Respond("create", r.id, "db_error", "none", "none")
            /\ UNCHANGED <<deployments, tasks>>
    /\ reqs' = reqs (-) One(r)
    /\ UNCHANGED <<issued, now, logs>>
    /\ UNCHANGED besidesLife

\* Delete, the SELECT of stack_name and status.
DeleteBegin(id) ==
    /\ BagCardinality(reqs) < MaxReqs
    /\ issued < MaxRequests
    /\ issued' = issued + 1
    /\ IF id \notin DOMAIN deployments
       THEN /\ last' = Respond("delete", id, "not_found", "none", "none")
            /\ UNCHANGED reqs
       ELSE /\ reqs' = reqs (+) One([op |-> "delete", pc |-> "remove", id |-> id,
                                     status |-> deployments[id].status])
            /\ last' = NoResponse
    /\ UNCHANGED <<now, deployments, logs, tasks>>
    /\ UNCHANGED besidesLife

\* Delete, compose.Down when the status read was running, then the DELETE of
\* the row, which the foreign key of deployment_logs refuses while log rows
\* of the deployment exist.
DeleteRemove(r, downOk) ==
    /\ r.op = "delete" /\ r.pc = "remove"
    /\ IF r.status = StatusRunning /\ ~downOk
       THEN /\ last' = Respond("delete", r.id, "exec_failed",
                               StatusOf(deployments, r.id), StatusOf(deployments, r.id))
            /\ reqs' = reqs (-) One(r)
            /\ UNCHANGED deployments
       ELSE IF HasLogs(logs, r.id)
       THEN /\ last' = Respond("delete", r.id, "db_error",
                               StatusOf(deployments, r.id), StatusOf(deployments, r.id))
            /\ reqs' = reqs (-) One(r)
            /\ UNCHANGED deployments
       ELSE /\ deployments' = RemoveRow(deployments, r.id)
            /\ reqs' = (reqs (-) One(r)) (+)
                          One([op |-> "delete", pc |-> "logs", id |-> r.id,
                               status |-> StatusOf(deployments, r.id)])
            /\ last' = NoResponse
    /\ UNCHANGED <<issued, now, logs, tasks>>
    /\ UNCHANGED besidesLife

\* Delete, the DELETE of the deployment's log rows and the 200 response;
\* from is the status the row had when it was removed.
DeleteLogs(r) ==
    /\ r.op = "delete" /\ r.pc = "logs"
    /\ logs' = DeleteLogsOf(logs, r.id)
    /\ last' = Respond("delete", r.id, "ok", r.status, "none")
    /\ reqs' = reqs (-) One(r)
    /\ UNCHANGED <<issued, now, deployments, tasks>>
    /\ UNCHANGED besidesLife

\* performDeployment: updateDeploymentStatus(deployment.ID, StatusDeploying)
TaskSetDeploying(t) ==
    /\ t.pc = "deploying"
    /\ deployments' = updateDeploymentStatus(deployments, t.id, StatusDeploying)
    /\ tasks' = (tasks (-) One(t)) (+) One([t EXCEPT !.pc = "log_start"])
    /\ last' = NoResponse
    /\ UNCHANGED <<issued, now, logs, reqs>>
    /\ UNCHANGED besidesLife

\* performDeployment: addDeploymentLog(..., "Starting deployment process")
TaskLogStart(t) ==
    /\ t.pc = "log_start"
    /\ logs' = addDeploymentLog(logs, deployments, t.id, "info",
                                "Starting deployment process", now)
    /\ tasks' = (tasks (-) One(t)) (+) One([t EXCEPT !.pc = "running"])
    /\ last' = NoResponse
    /\ UNCHANGED <<issued, now, deployments, reqs>>
    /\ UNCHANGED besidesLife

\* performDeployment, after the sleep:
\* updateDeploymentStatus(deployment.ID, StatusRunning)
TaskSetRunning(t) ==
    /\ t.pc = "running"
    /\ deployments' = updateDeploymentStatus(deployments, t.id, StatusRunning)
    /\ tasks' = (tasks (-) One(t)) (+) One([t EXCEPT !.pc = "log_done"])
    /\ last' = NoResponse
    /\ UNCHANGED <<issued, now, logs, reqs>>
    /\ UNCHANGED besidesLife

\* performDeployment: addDeploymentLog(..., "Deployment completed successfully")
TaskLogDone(t) ==
    /\ t.pc = "log_done"
    /\ logs' = addDeploymentLog(logs, deployments, t.id, "info",
                                "Deployment completed successfully", now)
    /\ tasks' = IF t.newt_injected
                THEN (tasks (-) One(t)) (+) One([t EXCEPT !.pc = "tunnel"])
                ELSE tasks (-) One(t)
    /\ last' = NoResponse
    /\ UNCHANGED <<issued, now, deployments, reqs>>
    /\ UNCHANGED besidesLife

\* performDeployment: updateTunnelURL when deployment.NewtInjected
TaskSetTunnel(t) ==
    /\ t.pc = "tunnel"
    /\ deployments' = updateTunnelURL(deployments, t.id, TunnelURLOf(t.stack_name))
    /\ tasks' = tasks (-) One(t)
    /\ last' = NoResponse
    /\ UNCHANGED <<issued, now, logs, reqs>>
    /\ UNCHANGED besidesLife

\* StreamLogs: 404 for a missing deployment, else the 50 most recent rows
\* as getRecentLogs returned them, written to the response one by one.
StreamLogs(id, entries) ==
    /\ IF id \notin DOMAIN deployments
       THEN /\ entries = <<>>
            /\ last' = [Respond("logs", id, "not_found", "none", "none")
                            EXCEPT !.op = "logs"]
       ELSE /\ entries \in getRecentLogs(logs, id, 50)
            /\ last' = [op |-> "logs", id |-> id, code |-> "ok", from |-> "none",
                        to |-> "none", entries |-> entries]
    /\ UNCHANGED <<issued, now, deployments, logs, tasks, reqs>>
    /\ UNCHANGED besidesLife

----------------------------------------------------------------------------
(* StacksHandler: Start, Stop, Restart *)

\* The lookup all three handlers begin with: getStackName, 404 when "".
StackBegin(op, id) ==
    /\ BagCardinality(reqs) < MaxReqs
    /\ issued < MaxRequests
    /\ issued' = issued + 1
    /\ IF getStackName(deployments, id) = ""
       THEN /\ last' = Respond(op, id, "not_found", "none", "none")
            /\ UNCHANGED reqs
       ELSE /\ reqs' = reqs (+) One([op |-> op, pc |-> "exec", id |-> id])
            /\ last' = NoResponse
    /\ UNCHANGED <<now, deployments, logs, tasks>>
    /\ UNCHANGED besidesLife

\* The compose command (ok: it returned nil; otherwise it failed or was
\* killed at the timeout) and, on success, the handler's status write.
StackFinish(r, op, ok, written) ==
    LET after == IF ok /\ written # "none"
                 THEN updateDeploymentStatus(deployments, r.id, written)
                 ELSE deployments
    IN
    /\ r.op = op /\ r.pc = "exec"
    /\ deployments' = after
    /\ last' = Respond(op, r.id, IF ok THEN "ok" ELSE "exec_failed",
                       StatusOf(deployments, r.id), StatusOf(after, r.id))
    /\ reqs' = reqs (-) One(r)
    /\ UNCHANGED <<issued, now, logs, tasks>>
    /\ UNCHANGED besidesLife

StartBegin(id) == StackBegin("start", id)

\* compose.Start, then updateDeploymentStatus(stackID, StatusRunning)
StartFinish(r, ok) == StackFinish(r, "start", ok, StatusRunning)

StopBegin(id) == StackBegin("stop", id)

\* compose.Stop, then updateDeploymentStatus(stackID, StatusStopped)
StopFinish(r, ok) == StackFinish(r, "stop", ok, StatusStopped)

RestartBegin(id) == StackBegin("restart", id)

\* compose.Restart; the handler writes no status
RestartFinish(r, ok) == StackFinish(r, "restart", ok, "none")

\* A second passes on the wall clock.
Tick ==
    /\ now < MaxClock
    /\ now' = now + 1
    /\ last' = NoResponse
    /\ UNCHANGED <<issued, deployments, logs, tasks, reqs>>
    /\ UNCHANGED besidesLife

----------------------------------------------------------------------------
(* The lifecycle specification *)

LifeInit ==
    /\ now = 1
    /\ deployments = <<>>
    /\ logs = <<>>
    /\ tasks = EmptyBag
    /\ reqs = EmptyBag
    /\ issued = 0
    /\ last = NoResponse

Next ==
    \/ \E name \in StackNames \cup {"-app"}, newt \in BOOLEAN, found \in BOOLEAN :
          CreateBegin(name, newt, found)
    \/ \E r \in BagToSet(reqs) : CreateInsert(r)
    \/ \E id \in DepIds : DeleteBegin(id)
    \/ \E r \in BagToSet(reqs), downOk \in BOOLEAN : DeleteRemove(r, downOk)
    \/ \E r \in BagToSet(reqs) : DeleteLogs(r)
    \/ \E id \in DepIds : StartBegin(id)
    \/ \E r \in BagToSet(reqs), ok \in BOOLEAN : StartFinish(r, ok)
    \/ \E id \in DepIds : StopBegin(id)
    \/ \E r \in BagToSet(reqs), ok \in BOOLEAN : StopFinish(r, ok)
    \/ \E id \in DepIds : RestartBegin(id)
    \/ \E r \in BagToSet(reqs), ok \in BOOLEAN : RestartFinish(r, ok)
    \/ \E id \in DepIds :
          \E entries \in {<<>>} \cup getRecentLogs(logs, id, 50) : StreamLogs(id, entries)
    \/ \E t \in BagToSet(tasks) : TaskSetDeploying(t)
    \/ \E t \in BagToSet(tasks) : TaskLogStart(t)
    \/ \E t \in BagToSet(tasks) : TaskSetRunning(t)
    \/ \E t \in BagToSet(tasks) : TaskLogDone(t)
    \/ \E t \in BagToSet(tasks) : TaskSetTunnel(t)
    \/ Tick

\* No request was answered by the step just taken.
NoAnswer == [op |-> "none", via |-> "none", code |-> "none", id |-> 0]

BkIdle ==
    /\ backups = <<>>
    /\ archives = <<>>
    /\ staging = {}
    /\ keyfiles = {}
    /\ scratch = <<>>
    /\ btasks = {}
    /\ rtasks = {}
    /\ bkIssued = 0
    /\ bkLast = NoAnswer

EncIdle ==
    /\ encIn = <<>>
    /\ encRd = <<>>
    /\ decRd = <<>>

InjIdle ==
    /\ injCfg = <<>>
    /\ injIn = <<>>
    /\ injOut = <<>>
    /\ injDoc = <<>>
    /\ injRes = <<>>
    /\ injOp = "none"
    /\ injPass = 0

NameIdle ==
    /\ nmCfg = <<>>
    /\ nmRes = <<>>

CleanIdle ==
    /\ clnNow = <<>>
    /\ clnRet = <<>>
    /\ clnIn = <<>>
    /\ clnTbl = <<>>
    /\ clnPc = "none"

MonIdle ==
    /\ monArrays = <<>>
    /\ monSubs = <<>>
    /\ monChans = <<>>
    /\ monPub = <<>>

SyncIdle ==
    /\ isRunning = FALSE
    /\ stopClosed = FALSE
    /\ syncLoops = 0
    /\ starting = <<>>
    /\ syncLast = "none"

\* The state of the components a specification leaves idle.
RestIdle == NameIdle /\ CleanIdle /\ MonIdle /\ SyncIdle

Init == LifeInit /\ InjIdle /\ BkIdle /\ EncIdle /\ RestIdle

Spec == Init /\ [][Next]_vars
----------------------------------------------------------------------------
(* Strings: strings.Contains, strings.HasPrefix, strings.Split(s, ":")[0] *)

Contains(str, sub) ==
    \E i \in 1..(Len(str) - Len(sub) + 1) : SubSeq(str, i, i + Len(sub) - 1) = sub

HasPrefix(str, prefix) ==
    Len(str) >= Len(prefix) /\ SubSeq(str, 1, Len(prefix)) = prefix

\* The part of port before its first ":" (all of it when there is none).
HostPort(port) ==
    LET colons == {i \in 1..Len(port) : SubSeq(port, i, i) = ":"}
    IN IF colons = {} THEN port
       ELSE SubSeq(port, 1, (CHOOSE i \in colons : \A j \in colons : i <= j) - 1)

----------------------------------------------------------------------------
(* Compose documents: DockerCompose, ComposeService, ComposeNetwork *)

\* ComposeService after yaml.Unmarshal. A nil and an empty slice or map are
\* the same value here (the code reads them through len only); healthcheck,
\* command and entrypoint are <<>> for nil and a one-element sequence
\* otherwise.
StrFields == {"image", "container_name", "restart"}
SeqFields == {"environment", "ports", "volumes", "networks", "depends_on",
              "healthcheck", "command", "entrypoint"}
SetFields == {"labels"}
ServiceFields == StrFields \cup SeqFields \cup SetFields

\* Every field but image is tagged omitempty.
OmitEmpty == ServiceFields \ {"image"}

ZeroOf(f) == IF f \in StrFields THEN "" ELSE IF f \in SeqFields THEN <<>> ELSE {}

IsZero(f, v) ==
    IF f \in StrFields THEN v = "" ELSE IF f \in SeqFields THEN Len(v) = 0 ELSE v = {}

\* A service node of the YAML text is a mapping from keys to values.
\* yaml.Unmarshal fills the fields whose keys the node holds and skips the
\* keys ComposeService has no field for.
UnmarshalService(y) ==
    [f \in ServiceFields |-> IF f \in DOMAIN y THEN y[f] ELSE ZeroOf(f)]

MarshalService(svc) ==
    [f \in {g \in ServiceFields : g \notin OmitEmpty \/ ~IsZero(g, svc[g])} |-> svc[f]]

\* The YAML text of a compose file: whether it parses, its services mapping
\* and, when the key is present, its networks mapping. The injector reads
\* neither version nor the volumes mapping; they are left out.
Unmarshal(text) ==
    [services |-> [n \in DOMAIN text.services |-> UnmarshalService(text.services[n])],
     networks |-> IF "networks" \in DOMAIN text THEN text.networks ELSE <<>>]

Marshal(compose) ==
    LET svcs == [n \in DOMAIN compose.services |-> MarshalService(compose.services[n])]
    IN IF DOMAIN compose.networks = {}
       THEN [parses |-> TRUE, services |-> svcs]
       ELSE [parses |-> TRUE, services |-> svcs, networks |-> compose.networks]

\* ComposeNetwork
Network(driver, labels) ==
    [driver |-> driver, external |-> FALSE, name |-> "", labels |-> labels]

----------------------------------------------------------------------------
(* NewtConfig and NewtInjector: docker/newt_injector.go *)

GetEnvironmentVars(nc) ==
    << "PANGOLIN_ENDPOINT=" \o nc.Endpoint,
       "NEWT_ID=" \o nc.NewtID,
       "NEWT_SECRET=" \o nc.Secret,
       "LOG_LEVEL=INFO",
       "HEALTH_FILE=/tmp/healthy" >>

RequiredEnvs == {"PANGOLIN_ENDPOINT", "NEWT_ID", "NEWT_SECRET"}

NoError == [kind |-> "nil"]

\* The required variables no entry of the environment list sets
\* (strings.HasPrefix(env, required + "=")).
MissingEnvs(service) ==
    {required \in RequiredEnvs :
        ~\E i \in 1..Len(service.environment) :
            HasPrefix(service.environment[i], required \o "=")}

\* validateNewtService with the loop over the environment left out.
validateNewtServiceSkipsEnvs(service) ==
    IF service.image = ""
    THEN [kind |-> "missing_image"]
    ELSE IF ~Contains(service.image, "newt")
    THEN [kind |-> "incorrect_image", image |-> service.image]
    ELSE IF ~\E i \in 1..Len(service.volumes) :
               Contains(service.volumes[i], "/var/run/docker.sock")
    THEN [kind |-> "missing_socket"]
    ELSE NoError

\* validateNewtService: the first failing check as the error, NoError for nil.
\* The message of missing_env joins the names in map order; names holds them.
validateNewtService(service) ==
    IF service.image = ""
    THEN [kind |-> "missing_image"]
    ELSE IF ~Contains(service.image, "newt")
    THEN [kind |-> "incorrect_image", image |-> service.image]
    ELSE IF MissingEnvs(service) # {}
    THEN [kind |-> "missing_env", names |-> MissingEnvs(service)]
    ELSE IF ~\E i \in 1..Len(service.volumes) :
               Contains(service.volumes[i], "/var/run/docker.sock")
    THEN [kind |-> "missing_socket"]
    ELSE NoError

\* validateNetworkConfiguration
validateNetworkConfiguration(compose) ==
    IF DOMAIN compose.networks = {}
    THEN [kind |-> "no_networks"]
    ELSE LET without == {n \in DOMAIN compose.services :
                            Len(compose.services[n].networks) = 0}
         IN IF without # {}
            THEN [kind |-> "services_without_networks", names |-> without]
            ELSE NoError

\* The host ports that more than one port entry of the document uses, each
\* with the services using it.
PortConflicts(compose) ==
    LET uses(p) == UNION {{<<n, i>> : i \in {j \in 1..Len(compose.services[n].ports) :
                                        HostPort(compose.services[n].ports[j]) = p}} :
                          n \in DOMAIN compose.services}
        all == UNION {{HostPort(compose.services[n].ports[i]) :
                          i \in 1..Len(compose.services[n].ports)} :
                      n \in DOMAIN compose.services}
    IN {[kind |-> "port_conflict", port |-> p,
         services |-> {u[1] : u \in uses(p)}] : p \in {q \in all : Cardinality(uses(q)) > 1}}

\* ValidateCompose: the report, with the document it was given (it only
\* reads it). Issues and Suggestions are in append order; the port warnings
\* come in map order, so Warnings is the set of them.
ValidateCompose(compose) ==
    LET hasNewt == "newt" \in DOMAIN compose.services
        newtErr == IF hasNewt THEN validateNewtService(compose.services["newt"])
                   ELSE NoError
        netErr == validateNetworkConfiguration(compose)
    IN IF DOMAIN compose.services = {}
       THEN [compose |-> compose,
             result |-> [Valid |-> FALSE, HasNewt |-> FALSE, NetworkOK |-> TRUE,
                         Issues |-> <<[from |-> "compose", err |-> [kind |-> "no_services"]]>>,
                         Warnings |-> {}, Suggestions |-> <<>>]]
       ELSE [compose |-> compose,
             result |->
               [Valid |-> newtErr = NoError,
                HasNewt |-> hasNewt,
                NetworkOK |-> netErr = NoError,
                Issues |-> IF newtErr # NoError
                           THEN <<[from |-> "Newt service configuration error", err |-> newtErr]>>
                           ELSE <<>>,
                Warnings |-> (IF netErr # NoError THEN {netErr} ELSE {})
                             \cup PortConflicts(compose),
                Suggestions |->
                    (IF ~hasNewt THEN <<"Add newt service for remote tunnel access">>
                     ELSE <<>>)
                    \o (IF DOMAIN compose.networks = {}
                        THEN <<"Define custom networks for better service isolation">>
                        ELSE <<>>)]]

\* createNewtService
createNewtService(config) ==
    [image |-> IF config.Image # "" THEN config.Image ELSE "fosrl/newt:latest",
     container_name |-> "newt",
     restart |-> "unless-stopped",
     environment |-> GetEnvironmentVars(config),
     ports |-> <<>>,
     depends_on |-> <<>>,
     command |-> <<>>,
     entrypoint |-> <<>>,
     volumes |-> <<"/var/run/docker.sock:/var/run/docker.sock:ro">>,
     networks |-> <<"app_network">>,
     labels |-> {<<"app.type", "tunnel">>, <<"app.name", "newt">>,
                 <<"app.managed", "true">>, <<"traefik.enable", "false">>},
     healthcheck |-> <<[test |-> <<"CMD", "test", "-f", "/tmp/healthy">>,
                        interval |-> "30s", timeout |-> "10s",
                        retries |-> HealthRetries, start_period |-> "60s"]>>]

\* The loop body without the hasAppNetwork test.
EnsureServiceNetworkAlwaysAppends(service) ==
    IF Len(service.networks) = 0
    THEN [service EXCEPT !.networks = <<"app_network">>]
    ELSE [service EXCEPT !.networks = Append(service.networks, "app_network")]

\* The loop body of ensureNetworkConfiguration for one service.
EnsureServiceNetwork(service) ==
    IF Len(service.networks) = 0
    THEN [service EXCEPT !.networks = <<"app_network">>]
    ELSE IF \E i \in 1..Len(service.networks) : service.networks[i] = "app_network"
    THEN service
    ELSE [service EXCEPT !.networks = Append(service.networks, "app_network")]

\* ensureNetworkConfiguration (its error is always nil)
ensureNetworkConfiguration(compose) ==
    [services |-> [n \in DOMAIN compose.services |->
                      EnsureServiceNetwork(compose.services[n])],
     networks |-> IF DOMAIN compose.networks = {}
                  THEN [n \in {"app_network"} |->
                           Network("bridge", {<<"app.managed", "true">>})]
                  ELSE compose.networks]

\* The newt branch of ProcessCompose: keep a newt service that passes
\* validateNewtService, replace one that fails it, add one when there is none.
WithNewt(config, compose) ==
    LET keep == /\ "newt" \in DOMAIN compose.services
                /\ validateNewtService(compose.services["newt"]) = NoError
    IN [compose EXCEPT !.services =
           [n \in DOMAIN compose.services \cup {"newt"} |->
               IF n = "newt" /\ ~keep THEN createNewtService(config)
               ELSE compose.services[n]]]

\* ProcessCompose on the text of a compose file that parses: the text
\* marshalled back and the report.
ProcessCompose(config, text) ==
    LET compose == Unmarshal(text)
        first == ValidateCompose(compose).result
        hasNewt == "newt" \in DOMAIN compose.services
        newtErr == IF hasNewt THEN validateNewtService(compose.services["newt"])
                   ELSE NoError
        issues == first.Issues \o
                  (IF newtErr # NoError
                   THEN <<[from |-> "process", err |-> newtErr]>> ELSE <<>>)
        suggestions ==
            first.Suggestions \o
            (IF ~hasNewt THEN <<"Added newt service for tunnel connectivity">>
             ELSE IF newtErr # NoError
             THEN <<"Updated existing newt service with correct configuration">>
             ELSE <<>>)
    IN [content |-> Marshal(ensureNetworkConfiguration(WithNewt(config, compose))),
        compose |-> ensureNetworkConfiguration(WithNewt(config, compose)),
        result |-> [Valid |-> Len(issues) = 0,
                    HasNewt |-> TRUE,
                    NetworkOK |-> TRUE,
                    Issues |-> issues,
                    Warnings |-> first.Warnings,
                    Suggestions |-> suggestions]]

\* PreviewNewtInjection on a text that parses: the preview map, with the
\* document it parsed as it is when the call returns. The names of the
\* services needing networks are joined in map order; names holds them.
PreviewNewtInjection(config, text) ==
    LET compose == Unmarshal(text)
        exists == "newt" \in DOMAIN compose.services
        needing == {n \in DOMAIN compose.services :
                       Len(compose.services[n].networks) = 0}
    IN [compose |-> compose,
        preview |->
          [has_newt_service |-> exists,
           will_add_newt |-> ~exists,
           will_add_network |-> DOMAIN compose.networks = {},
           changes |->
               (IF ~exists THEN <<[kind |-> "Add newt service"]>> ELSE <<>>)
               \o (IF DOMAIN compose.networks = {}
                   THEN <<[kind |-> "Add app_network"]>> ELSE <<>>)
               \o (IF needing # {}
                   THEN <<[kind |-> "Add network configuration to services",
                           names |-> needing]>>
                   ELSE <<>>),
           newt_service |-> createNewtService(config)]]

----------------------------------------------------------------------------
(* The injector specification: compose files and configurations it is given *)

SocketMount == "/var/run/docker.sock:/var/run/docker.sock:ro"

FullEnv == <<"PANGOLIN_ENDPOINT=https://pangolin.example.com", "NEWT_ID=abc",
             "NEWT_SECRET=s3cret">>

\* Service nodes a compose file may hold under a user service's name.
UserServiceTexts ==
    { [image |-> "nginx:1.25", ports |-> <<"8080:80">>],
      [image |-> "nginx:1.25", ports |-> <<"8080:80", "8080:81">>,
       networks |-> <<"backend">>],
      [image |-> "nginx:1.25", networks |-> <<"app_network">>],
      [image |-> "nginx:1.25", restart |-> "always", networks |-> <<>>,
       labels |-> {}, command |-> <<"nginx -g 'daemon off;'">>],
      [build |-> "./app", depends_on |-> <<"db">>, networks |-> <<"backend">>],
      [image |-> "postgres:16", ports |-> <<"8080:5432">>,
       volumes |-> <<"data:/var/lib/postgresql">>,
       environment |-> <<"POSTGRES_PASSWORD=pw">>,
       networks |-> <<"backend", "app_network">>] }

\* Service nodes a compose file may hold under the name newt.
NewtServiceTexts ==
    { [image |-> "fosrl/newt:latest", environment |-> FullEnv,
       volumes |-> <<SocketMount>>],
      [image |-> "ghcr.io/acme/newt-agent:2", container_name |-> "edge",
       environment |-> FullEnv \o <<"LOG_LEVEL=DEBUG">>,
       volumes |-> <<SocketMount>>, networks |-> <<"backend">>],
      [image |-> "fosrl/newt:latest", container_name |-> "edge",
       environment |-> <<"NEWT_ID=abc", "NEWT_SECRET=s3cret">>,
       volumes |-> <<SocketMount>>, networks |-> <<"backend">>],
      [image |-> "fosrl/newt:latest",
       environment |-> <<"PANGOLIN_ENDPOINT=https://pangolin.example.com",
                         "NEWT_SECRET=s3cret">>,
       volumes |-> <<SocketMount>>],
      [image |-> "fosrl/newt:latest",
       environment |-> <<"PANGOLIN_ENDPOINT=https://pangolin.example.com",
                         "NEWT_ID=abc">>,
       volumes |-> <<SocketMount>>, networks |-> <<"app_network">>],
      [image |-> "fosrl/newt:latest",
       environment |-> <<"PANGOLIN_ENDPOINT=https://pangolin.example.com",
                         "NEWT_ID", "NEWT_SECRET=s3cret">>,
       volumes |-> <<SocketMount>>],
      [image |-> "fosrl/newt:latest", environment |-> <<"NEWT_ID", "NEWT_SECRET=s3cret">>,
       volumes |-> <<SocketMount>>],
      [image |-> "fosrl/newt:latest", environment |-> <<"NEWT_ID=abc">>,
       volumes |-> <<SocketMount>>],
      [image |-> "nginx:1.25", environment |-> FullEnv, volumes |-> <<SocketMount>>],
      [image |-> "", environment |-> FullEnv, volumes |-> <<SocketMount>>],
      [image |-> "fosrl/newt:latest", environment |-> FullEnv,
       volumes |-> <<"cfg:/etc/newt">>] }

\* Top-level networks mappings; <<>> is an explicit empty mapping.
NetworkTexts ==
    { <<>>,
      [n \in {"backend"} |-> Network("", {})],
      [n \in {"app_network"} |-> Network("bridge", {})],
      [n \in {"backend", "app_network"} |-> Network("", {})] }

UserNames == {"web", "db"}

ServiceMaps ==
    UNION {[names -> UserServiceTexts] : names \in SUBSET UserNames}

WithNewtText(svcs, newt) ==
    [n \in DOMAIN svcs \cup {"newt"} |-> IF n = "newt" THEN newt ELSE svcs[n]]

\* At most MaxUserServices user services, the same node under each name
\* counted once, so that the set stays small.
ComposeTexts ==
    LET maps == {m \in ServiceMaps : Cardinality(DOMAIN m) <= MaxUserServices}
        svcs == maps \cup {WithNewtText(m, nt) : m \in maps, nt \in NewtServiceTexts}
    IN {[parses |-> TRUE, services |-> sv] : sv \in svcs}
       \cup {[parses |-> TRUE, services |-> sv, networks |-> nw] :
                sv \in svcs, nw \in NetworkTexts}

\* A text yaml.Unmarshal rejects.
BadText == [parses |-> FALSE, services |-> <<>>]

Configs ==
    {[Endpoint |-> "https://pangolin.example.com", NewtID |-> "abc",
      Secret |-> "s3cret", Image |-> img] :
        img \in {"", "fosrl/newt:1.4", "registry.local/tunnel-agent:1"}}

\* The text the next injector call is given: the file, or the last output.
CurrentText == IF injPass = 0 THEN injIn ELSE injOut

\* ValidateCompose on the parsed current text.
InjValidate ==
    /\ CurrentText.parses
    /\ injOp # "validate"
    /\ LET v == ValidateCompose(Unmarshal(CurrentText))
       IN /\ injDoc' = v.compose
          /\ injRes' = v.result
    /\ injOp' = "validate"
    /\ UNCHANGED <<injCfg, injIn, injOut, injPass>>
    /\ UNCHANGED besidesInj

\* ProcessCompose on the current text.
InjProcess ==
    /\ CurrentText.parses
    /\ injPass < MaxPasses
    /\ LET p == ProcessCompose(injCfg, CurrentText)
       IN /\ injIn' = CurrentText
          /\ injOut' = p.content
          /\ injDoc' = p.compose
          /\ injRes' = p.result
    /\ injOp' = "process"
    /\ injPass' = injPass + 1
    /\ UNCHANGED injCfg
    /\ UNCHANGED besidesInj

\* PreviewNewtInjection on the current text.
InjPreview ==
    /\ CurrentText.parses
    /\ injOp # "preview"
    /\ LET v == PreviewNewtInjection(injCfg, CurrentText)
       IN /\ injDoc' = v.compose
          /\ injRes' = v.preview
    /\ injOp' = "preview"
    /\ UNCHANGED <<injCfg, injIn, injOut, injPass>>
    /\ UNCHANGED besidesInj

\* ProcessCompose on a text that does not parse: the error, nothing else.
InjParseError ==
    /\ ~CurrentText.parses
    /\ injOp = "none"
    /\ injOp' = "parse_error"
    /\ UNCHANGED <<injCfg, injIn, injOut, injDoc, injRes, injPass>>
    /\ UNCHANGED besidesInj

InjInit ==
    /\ LifeInit
    /\ BkIdle
    /\ EncIdle
    /\ RestIdle
    /\ injCfg \in Configs
    /\ injIn \in ComposeTexts \cup {BadText}
    /\ injOut = injIn
    /\ injDoc = <<>>
    /\ injRes = <<>>
    /\ injOp = "none"
    /\ injPass = 0

InjNext == InjValidate \/ InjPreview \/ InjProcess \/ InjParseError

InjSpec == InjInit /\ [][InjNext]_vars

----------------------------------------------------------------------------
(* Backups: models/backup.go, backup/scheduler.go (Manager), handlers      *)
(* (BackupsHandler), backup/storage.go                                     *)

BackupStatusCreating == "creating"
BackupStatusCompleted == "completed"
BackupStatusFailed == "failed"

\* generateBackupID: "backup_<unix second>"; the ID is the second.
generateBackupID == now

\* storage_path: "" or the path <storage>/<id>.tar.gz, written as the ID.
NoPath == 0
ArchivePath(id) == id

\* completed_at: NULL or the second it was set.
NullTime == 0

\* A row of backups. name, type, size_bytes, include_volumes and created_at
\* are written once or never read by the pipeline and are left out.
BackupRow(status, path, encrypted, ids) ==
    [status |-> status, storage_path |-> path, completed_at |-> NullTime,
     encrypted |-> encrypted, deployment_ids |-> ids]

\* INSERT INTO backups: id is the primary key.
saveBackupRecord(tbl, id, row) ==
    [i \in DOMAIN tbl \cup {id} |-> IF i = id THEN row ELSE tbl[i]]

\* Manager.updateBackupStatus: UPDATE ... WHERE id; completed_at is set for
\* completed and for failed.
updateBackupStatus(tbl, id, status, t) ==
    IF id \in DOMAIN tbl
    THEN [tbl EXCEPT ![id].status = status,
                     ![id].completed_at =
                        IF status \in {BackupStatusCompleted, BackupStatusFailed}
                        THEN t ELSE NullTime]
    ELSE tbl

\* Manager.updateBackupRecord: UPDATE ... WHERE id from the fields of the
\* Backup struct the goroutine holds.
updateBackupRecord(tbl, backup) ==
    IF backup.id \in DOMAIN tbl
    THEN [tbl EXCEPT ![backup.id].status = backup.status,
                     ![backup.id].storage_path = backup.storage_path,
                     ![backup.id].deployment_ids = backup.deployment_ids,
                     ![backup.id].completed_at = backup.completed_at]
    ELSE tbl

\* BackupConfig.Validate / RestoreConfig.Validate
BackupConfigValidate(nameGiven, ids) ==
    IF ~nameGiven THEN "ErrBackupNameRequired"
    ELSE IF ids = {} THEN "ErrBackupNoDeployments"
    ELSE "nil"

RestoreConfigValidate(config) ==
    IF config.BackupID = 0 THEN "ErrRestoreBackupRequired"
    ELSE IF config.Selective /\ config.DeploymentIDs = {} THEN "ErrRestoreNoDeployments"
    ELSE "nil"

\* RestoreConfig.HasDeployment
HasDeployment(config, deploymentID) ==
    ~config.Selective \/ deploymentID \in config.DeploymentIDs

Answer(op, via, code, id) == [op |-> op, via |-> via, code |-> code, id |-> id]

\* The file a path names after a write: what it holds.
WriteFile(files, id, content) ==
    [i \in DOMAIN files \cup {id} |-> IF i = id THEN content ELSE files[i]]

RemovePath(files, id) == [i \in DOMAIN files \ {id} |-> files[i]]

\* The bytes createArchive writes for a staging directory: a whole gzip
\* stream, or the part written before an error. Nothing on the way to the
\* file encrypts them.
ArchiveBytes(id, whole) ==
    [of |-> id, whole |-> whole, intact |-> TRUE, encrypted |-> FALSE]

\* Manager.CreateBackup: the directory, the record, the goroutine.
ManagerCreateBackup(ids, encrypted, mkdirOk) ==
    /\ bkIssued < MaxBkRequests
    /\ bkIssued' = bkIssued + 1
    /\ LET id == generateBackupID
       IN IF ~mkdirOk
          THEN /\ bkLast' = Answer("create", "manager", "mkdir_failed", id)
               /\ UNCHANGED <<backups, staging, btasks>>
          ELSE /\ staging' = staging \cup {id}
               /\ IF id \in DOMAIN backups
                  THEN /\ bkLast' = Answer("create", "manager", "db_error", id)
                       /\ UNCHANGED <<backups, btasks>>
                  ELSE /\ backups' = saveBackupRecord(backups, id,
                              BackupRow(BackupStatusCreating, NoPath, encrypted, ids))
                       /\ btasks' = btasks \cup
                              {[id |-> id, via |-> "manager", pc |-> "manifests",
                                status |-> BackupStatusCreating,
                                deployment_ids |-> ids, failed |-> FALSE]}
                       /\ bkLast' = Answer("create", "manager", "ok", id)
    /\ UNCHANGED <<archives, keyfiles, scratch, rtasks>>
    /\ UNCHANGED besidesBk

\* BackupsHandler.Create: it makes the two checks of BackupConfig.Validate
\* itself, on the name and on the resolved list.
HttpCreateBackup(nameGiven, requested, allDeployments, encrypted) ==
    /\ bkIssued < MaxBkRequests
    /\ bkIssued' = bkIssued + 1
    /\ LET ids == IF allDeployments
                  THEN {d \in DOMAIN deployments : deployments[d].status = StatusRunning}
                  ELSE requested
           id == generateBackupID
       IN IF BackupConfigValidate(nameGiven, ids) # "nil"
          THEN /\ bkLast' = Answer("create", "http", "bad_request", 0)
               /\ UNCHANGED <<backups, btasks>>
          ELSE IF id \in DOMAIN backups
          THEN /\ bkLast' = Answer("create", "http", "db_error", id)
               /\ UNCHANGED <<backups, btasks>>
          ELSE /\ backups' = saveBackupRecord(backups, id,
                      BackupRow(BackupStatusCreating, ArchivePath(id), encrypted, ids))
               /\ btasks' = btasks \cup
                      {[id |-> id, via |-> "http", pc |-> "sleep",
                        status |-> BackupStatusCreating, deployment_ids |-> ids,
                        failed |-> FALSE]}
               /\ bkLast' = Answer("create", "http", "created", id)
    /\ UNCHANGED <<archives, staging, keyfiles, scratch, rtasks>>
    /\ UNCHANGED besidesBk

\* BackupsHandler.performBackup: the sleep, then completed.
HttpBackupFinish(t) ==
    /\ t.via = "http"
    /\ backups' = IF t.id \in DOMAIN backups
                  THEN [backups EXCEPT ![t.id].status = BackupStatusCompleted,
                                       ![t.id].completed_at = now]
                  ELSE backups
    /\ btasks' = btasks \ {t}
    /\ bkLast' = NoAnswer
    /\ UNCHANGED <<archives, staging, keyfiles, scratch, rtasks, bkIssued>>
    /\ UNCHANGED besidesBk

\* A step of Manager.performBackup that fails: failed is written and the
\* function returns into its deferred call.
CaptureFails(t) ==
    /\ backups' = updateBackupStatus(backups, t.id, BackupStatusFailed, now)
    /\ btasks' = (btasks \ {t}) \cup {[t EXCEPT !.pc = "deferred", !.failed = TRUE]}

\* Manager.performBackup: the loop over backupDeployment. It fails on a
\* deployment that has no row and on a write that fails; its MkdirAll makes
\* the staging directory when that is missing.
BackupManifests(t, writeOk) ==
    /\ t.via = "manager" /\ t.pc = "manifests"
    /\ IF writeOk /\ t.deployment_ids \subseteq DOMAIN deployments
       THEN /\ btasks' = (btasks \ {t}) \cup {[t EXCEPT !.pc = "metadata"]}
            /\ staging' = IF t.deployment_ids # {} THEN staging \cup {t.id} ELSE staging
            /\ UNCHANGED backups
       ELSE /\ CaptureFails(t)
            /\ UNCHANGED staging
    /\ bkLast' = NoAnswer
    /\ UNCHANGED <<archives, keyfiles, scratch, rtasks, bkIssued>>
    /\ UNCHANGED besidesBk

\* Manager.performBackup: saveMetadata, an os.Create in the staging directory
BackupMetadata(t, writeOk) ==
    /\ t.via = "manager" /\ t.pc = "metadata"
    /\ IF writeOk /\ t.id \in staging
       THEN /\ btasks' = (btasks \ {t}) \cup {[t EXCEPT !.pc = "archive"]}
            /\ UNCHANGED backups
       ELSE CaptureFails(t)
    /\ bkLast' = NoAnswer
    /\ UNCHANGED <<archives, staging, keyfiles, scratch, rtasks, bkIssued>>
    /\ UNCHANGED besidesBk

\* Manager.performBackup: createArchive. os.Create may fail (no file), the
\* walk may fail (the file holds what was written so far; it fails at once
\* when the staging directory is missing), or all is written.
BackupArchive(t, outcome) ==
    /\ t.via = "manager" /\ t.pc = "archive"
    /\ IF outcome = "written" /\ t.id \in staging
       THEN /\ archives' = WriteFile(archives, t.id, ArchiveBytes(t.id, TRUE))
            /\ btasks' = (btasks \ {t}) \cup {[t EXCEPT !.pc = "record"]}
            /\ UNCHANGED backups
       ELSE /\ archives' = IF outcome # "create_failed"
                           THEN WriteFile(archives, t.id, ArchiveBytes(t.id, FALSE))
                           ELSE archives
            /\ CaptureFails(t)
    /\ bkLast' = NoAnswer
    /\ UNCHANGED <<staging, keyfiles, scratch, rtasks, bkIssued>>
    /\ UNCHANGED besidesBk

\* Manager.performBackup: updateBackupRecord with the path and completed_at
\* set on the struct (its Status is still the one it was created with), then
\* the staging directory is removed.
BackupRecord(t) ==
    /\ t.via = "manager" /\ t.pc = "record"
    /\ backups' = updateBackupRecord(backups,
                      [id |-> t.id, status |-> t.status,
                       storage_path |-> ArchivePath(t.id),
                       deployment_ids |-> t.deployment_ids,
                       completed_at |-> now])
    /\ staging' = staging \ {t.id}
    /\ btasks' = (btasks \ {t}) \cup {[t EXCEPT !.pc = "deferred"]}
    /\ bkLast' = NoAnswer
    /\ UNCHANGED <<archives, keyfiles, scratch, rtasks, bkIssued>>
    /\ UNCHANGED besidesBk

\* Manager.performBackup: the deferred updateBackupStatus(completed), run on
\* every return.
BackupDeferred(t) ==
    /\ t.via = "manager" /\ t.pc = "deferred"
    /\ backups' = updateBackupStatus(backups, t.id, BackupStatusCompleted, now)
    /\ btasks' = btasks \ {t}
    /\ bkLast' = NoAnswer
    /\ UNCHANGED <<archives, staging, keyfiles, scratch, rtasks, bkIssued>>
    /\ UNCHANGED besidesBk

\* Manager.DeleteBackup: the record is read, the archive it names and the
\* staging directory are removed, then the record.
ManagerDeleteBackup(id) ==
    /\ bkIssued < MaxBkRequests
    /\ bkIssued' = bkIssued + 1
    /\ IF id \notin DOMAIN backups
       THEN /\ bkLast' = Answer("delete", "manager", "not_found", id)
            /\ UNCHANGED <<backups, archives, staging>>
       ELSE /\ archives' = IF backups[id].storage_path # NoPath
                           THEN RemovePath(archives, backups[id].storage_path)
                           ELSE archives
            /\ staging' = staging \ {id}
            /\ backups' = [b \in DOMAIN backups \ {id} |-> backups[b]]
            /\ bkLast' = Answer("delete", "manager", "ok", id)
    /\ UNCHANGED <<keyfiles, scratch, btasks, rtasks>>
    /\ UNCHANGED besidesBk

\* What a restore request carries.
RestoreConfigs ==
    [BackupID : 1..MaxClock, Selective : BOOLEAN, DeploymentIDs : SUBSET DepIds,
     TestRestore : BOOLEAN]

\* Manager.RestoreBackup without the test of the status.
ManagerRestoreBackupAnyStatus(config) ==
    /\ bkIssued < MaxBkRequests
    /\ bkIssued' = bkIssued + 1
    /\ IF config.BackupID \notin DOMAIN backups
       THEN /\ bkLast' = Answer("restore", "manager", "not_found", config.BackupID)
            /\ UNCHANGED rtasks
       ELSE /\ rtasks' = rtasks \cup
                   {[id |-> config.BackupID, via |-> "manager", pc |-> "extract",
                     storage_path |-> backups[config.BackupID].storage_path,
                     deployment_ids |-> backups[config.BackupID].deployment_ids,
                     config |-> config, restored |-> {}, request |-> bkIssued + 1]}
            /\ bkLast' = Answer("restore", "manager", "ok", config.BackupID)
    /\ UNCHANGED <<backups, archives, staging, keyfiles, scratch, btasks>>
    /\ UNCHANGED besidesBk

\* Manager.RestoreBackup: the goroutine gets the Backup that getBackup read.
ManagerRestoreBackup(config) ==
    /\ bkIssued < MaxBkRequests
    /\ bkIssued' = bkIssued + 1
    /\ IF config.BackupID \notin DOMAIN backups
       THEN /\ bkLast' = Answer("restore", "manager", "not_found", config.BackupID)
            /\ UNCHANGED rtasks
       ELSE IF backups[config.BackupID].status # BackupStatusCompleted
       THEN /\ bkLast' = Answer("restore", "manager", "not_completed", config.BackupID)
            /\ UNCHANGED rtasks
       ELSE /\ rtasks' = rtasks \cup
                   {[id |-> config.BackupID, via |-> "manager", pc |-> "extract",
                     storage_path |-> backups[config.BackupID].storage_path,
                     deployment_ids |-> backups[config.BackupID].deployment_ids,
                     config |-> config, restored |-> {}, request |-> bkIssued + 1]}
            /\ bkLast' = Answer("restore", "manager", "ok", config.BackupID)
    /\ UNCHANGED <<backups, archives, staging, keyfiles, scratch, btasks>>
    /\ UNCHANGED besidesBk

\* BackupsHandler.Restore
HttpRestore(config) ==
    /\ bkIssued < MaxBkRequests
    /\ bkIssued' = bkIssued + 1
    /\ IF RestoreConfigValidate(config) # "nil"
       THEN /\ bkLast' = Answer("restore", "http", "bad_request", config.BackupID)
            /\ UNCHANGED rtasks
       ELSE IF config.BackupID \notin DOMAIN backups
       THEN /\ bkLast' = Answer("restore", "http", "not_found", config.BackupID)
            /\ UNCHANGED rtasks
       ELSE IF backups[config.BackupID].status # BackupStatusCompleted
       THEN /\ bkLast' = Answer("restore", "http", "not_completed", config.BackupID)
            /\ UNCHANGED rtasks
       ELSE IF backups[config.BackupID].storage_path \notin DOMAIN archives
       THEN /\ bkLast' = Answer("restore", "http", "file_not_found", config.BackupID)
            /\ UNCHANGED rtasks
       ELSE /\ rtasks' = rtasks \cup
                   {[id |-> config.BackupID, via |-> "http", pc |-> "sleep",
                     storage_path |-> backups[config.BackupID].storage_path,
                     deployment_ids |-> backups[config.BackupID].deployment_ids,
                     config |-> config, restored |-> {}, request |-> bkIssued + 1]}
            /\ bkLast' = Answer("restore", "http", "ok", config.BackupID)
    /\ UNCHANGED <<backups, archives, staging, keyfiles, scratch, btasks>>
    /\ UNCHANGED besidesBk

\* BackupsHandler.performRestore: the sleep, nothing else.
HttpRestoreFinish(t) ==
    /\ t.via = "http"
    /\ rtasks' = rtasks \ {t}
    /\ bkLast' = NoAnswer
    /\ UNCHANGED <<backups, archives, staging, keyfiles, scratch, btasks, bkIssued>>
    /\ UNCHANGED besidesBk

\* How extractArchive can end on the bytes of a file: a whole, undamaged
\* gzip stream is extracted fully; of a truncated one the entries before the
\* end may be written, or the header is rejected; damaged bytes may be
\* rejected, extracted up to the damage, or still extract to the end.
ExtractOutcomes(bytes) ==
    IF bytes.whole /\ bytes.intact THEN {"fully"}
    ELSE IF ~bytes.whole THEN {"rejected", "partly"}
    ELSE {"rejected", "partly", "fully"}

\* Manager.performRestore: extractArchive into <storage>/restore/<id>.
RestoreExtract(t, outcome) ==
    /\ t.via = "manager" /\ t.pc = "extract"
    /\ IF t.storage_path \notin DOMAIN archives
       THEN /\ outcome = "rejected"
            /\ UNCHANGED scratch
       ELSE /\ outcome \in ExtractOutcomes(archives[t.storage_path])
            /\ scratch' = IF outcome = "rejected" THEN scratch
                          ELSE WriteFile(scratch, t.id, archives[t.storage_path])
    /\ rtasks' = (rtasks \ {t}) \cup
                    {[t EXCEPT !.pc = IF outcome = "fully" THEN "restore" ELSE "cleanup"]}
    /\ bkLast' = NoAnswer
    /\ UNCHANGED <<backups, archives, staging, keyfiles, btasks, bkIssued>>
    /\ UNCHANGED besidesBk

\* Manager.performRestore: the loop over restoreDeployment, which reads the
\* manifest of each chosen deployment and does nothing with it.
RestoreDeployments(t) ==
    /\ t.via = "manager" /\ t.pc = "restore"
    /\ rtasks' = (rtasks \ {t}) \cup
                    {[t EXCEPT !.pc = "cleanup",
                               !.restored =
                                  IF t.config.TestRestore THEN {}
                                  ELSE {d \in t.deployment_ids :
                                           HasDeployment(t.config, d)}]}
    /\ bkLast' = NoAnswer
    /\ UNCHANGED <<backups, archives, staging, keyfiles, scratch, btasks, bkIssued>>
    /\ UNCHANGED besidesBk

\* Manager.performRestore: the deferred os.RemoveAll(restoreDir).
RestoreCleanup(t) ==
    /\ t.via = "manager" /\ t.pc = "cleanup"
    /\ scratch' = RemovePath(scratch, t.id)
    /\ rtasks' = rtasks \ {t}
    /\ bkLast' = NoAnswer
    /\ UNCHANGED <<backups, archives, staging, keyfiles, btasks, bkIssued>>
    /\ UNCHANGED besidesBk

\* The bytes of a stored archive change on disk after it was written.
ArchiveDamaged(id) ==
    /\ id \in DOMAIN archives
    /\ archives[id].intact
    /\ archives' = [archives EXCEPT ![id].intact = FALSE]
    /\ bkLast' = NoAnswer
    /\ UNCHANGED <<backups, staging, keyfiles, scratch, btasks, rtasks, bkIssued>>
    /\ UNCHANGED besidesBk

\* The backup specification: the deployments table holds no row or one
\* running deployment, and the clock runs.
\* The table after an earlier run made backup 1 of deployment 1 with
\* Manager.CreateBackup and its capture went through.
EarlierBackup ==
    [b \in {1} |-> [BackupRow(BackupStatusCompleted, ArchivePath(1), FALSE, {1})
                       EXCEPT !.completed_at = 1]]

BkInit ==
    /\ now = 1
    /\ deployments \in
          {<<>>,
           [d \in {1} |-> [stack_name |-> "app1", status |-> StatusRunning,
                           newt_injected |-> FALSE, tunnel_url |-> ""]]}
    /\ logs = <<>>
    /\ tasks = EmptyBag
    /\ reqs = EmptyBag
    /\ issued = 0
    /\ last = NoResponse
    /\ InjIdle
    /\ \/ BkIdle
       \/ /\ backups = EarlierBackup
          /\ archives = WriteFile(<<>>, ArchivePath(1), ArchiveBytes(1, TRUE))
          /\ staging = {}
          /\ keyfiles = {}
          /\ scratch = <<>>
          /\ btasks = {}
          /\ rtasks = {}
          /\ bkIssued = 0
          /\ bkLast = NoAnswer
    /\ EncIdle
    /\ RestIdle

BkNext ==
    \/ \E ids \in SUBSET DepIds, encrypted \in BOOLEAN, mkdirOk \in BOOLEAN :
          ManagerCreateBackup(ids, encrypted, mkdirOk)
    \/ \E nameGiven \in BOOLEAN, ids \in SUBSET DepIds, all \in BOOLEAN,
          encrypted \in BOOLEAN : HttpCreateBackup(nameGiven, ids, all, encrypted)
    \/ \E t \in btasks : HttpBackupFinish(t)
    \/ \E t \in btasks, writeOk \in BOOLEAN : BackupManifests(t, writeOk)
    \/ \E t \in btasks, writeOk \in BOOLEAN : BackupMetadata(t, writeOk)
    \/ \E t \in btasks, outcome \in {"written", "create_failed", "walk_failed"} :
          BackupArchive(t, outcome)
    \/ \E t \in btasks : BackupRecord(t)
    \/ \E t \in btasks : BackupDeferred(t)
    \/ \E id \in 1..MaxClock : ManagerDeleteBackup(id)
    \/ \E config \in RestoreConfigs : ManagerRestoreBackup(config)
    \/ \E config \in RestoreConfigs : HttpRestore(config)
    \/ \E t \in rtasks : HttpRestoreFinish(t)
    \/ \E t \in rtasks, outcome \in {"rejected", "partly", "fully"} :
          RestoreExtract(t, outcome)
    \/ \E t \in rtasks : RestoreDeployments(t)
    \/ \E t \in rtasks : RestoreCleanup(t)
    \/ \E id \in 1..MaxClock : ArchiveDamaged(id)
    \/ Tick

BkSpec == BkInit /\ [][BkNext]_vars

----------------------------------------------------------------------------
(* The background goroutines under a scheduler that keeps running them *)

\* A run works on the deployments or on the backups.
LiveNext ==
    \/ bkIssued = 0 /\ Next
    \/ issued = 0 /\ BkNext

\* A goroutine that can take its next step is not held back forever.
TasksScheduled ==
    /\ WF_vars(\E t \in BagToSet(tasks) : TaskSetDeploying(t))
    /\ WF_vars(\E t \in BagToSet(tasks) : TaskLogStart(t))
    /\ WF_vars(\E t \in BagToSet(tasks) : TaskSetRunning(t))
    /\ WF_vars(\E t \in BagToSet(tasks) : TaskLogDone(t))
    /\ WF_vars(\E t \in BagToSet(tasks) : TaskSetTunnel(t))
    /\ WF_vars(\E t \in btasks : HttpBackupFinish(t))
    /\ WF_vars(\E t \in btasks, writeOk \in BOOLEAN : BackupManifests(t, writeOk))
    /\ WF_vars(\E t \in btasks, writeOk \in BOOLEAN : BackupMetadata(t, writeOk))
    /\ WF_vars(\E t \in btasks, outcome \in {"written", "create_failed", "walk_failed"} :
                  BackupArchive(t, outcome))
    /\ WF_vars(\E t \in btasks : BackupRecord(t))
    /\ WF_vars(\E t \in btasks : BackupDeferred(t))
    /\ WF_vars(\E t \in rtasks : HttpRestoreFinish(t))
    /\ WF_vars(\E t \in rtasks, outcome \in {"rejected", "partly", "fully"} :
                  RestoreExtract(t, outcome))
    /\ WF_vars(\E t \in rtasks : RestoreDeployments(t))
    /\ WF_vars(\E t \in rtasks : RestoreCleanup(t))

LiveSpec == Init /\ [][LiveNext]_vars /\ TasksScheduled

----------------------------------------------------------------------------
(* Encryption: EncryptedReader and DecryptedReader (backup encryption)      *)

Byte == 0..(2^ByteBits - 1)

\* a ^ b on bytes
RECURSIVE Xor(_, _)
Xor(a, b) ==
    IF a = 0 THEN b
    ELSE IF b = 0 THEN a
    ELSE ((a + b) % 2) + 2 * Xor(a \div 2, b \div 2)

Block(byte) == [i \in 1..BlockSize |-> byte]

\* Keys aes.NewCipher accepts, written as their first BlockSize bytes. The
\* first two differ in their last byte only.
Keys ==
    {Block(0), [Block(0) EXCEPT ![BlockSize] = 1], Block(1)}

\* The IVs rand.Reader may deliver.
IVs == {Block(0), [i \in 1..BlockSize |-> i % 2]}

\* cipher.Block.Encrypt of the block made by aes.NewCipher(key). AES is
\* stood in for by a keyed function of blocks that mixes neighbouring bytes
\* with the key byte; CFB uses the block cipher in this direction only.
AESEncrypt(key, block) ==
    [i \in 1..BlockSize |->
        Xor(Xor(block[i], block[(i % BlockSize) + 1]), key[i])]

\* cipher.NewCFBEncrypter / NewCFBDecrypter: next is the block to encrypt
\* for the next key stream block, out the current key stream block.
NewCFB(iv) == [next |-> iv, out |-> Block(0), outUsed |-> BlockSize]

\* cfb.XORKeyStream(dst, src): the stream after it and dst.
RECURSIVE XORKeyStream(_, _, _, _)
XORKeyStream(cfb, key, src, decrypt) ==
    IF Len(src) = 0 THEN [cfb |-> cfb, dst |-> <<>>]
    ELSE LET fresh == IF cfb.outUsed = BlockSize
                      THEN [cfb EXCEPT !.out = AESEncrypt(key, cfb.next),
                                       !.outUsed = 0]
                      ELSE cfb
             at == fresh.outUsed + 1
             byte == Xor(src[1], fresh.out[at])
             after == [fresh EXCEPT !.next[at] = IF decrypt THEN src[1] ELSE byte,
                                    !.outUsed = at]
             rest == XORKeyStream(after, key, Tail(src), decrypt)
         IN [cfb |-> rest.cfb, dst |-> <<byte>> \o rest.dst]

\* Every byte sequence up to MaxData bytes, and one longer than a block.
Plaintexts ==
    UNION {[1..n -> Byte] : n \in 0..MaxData}
       \cup {[i \in 1..(BlockSize + 2) |-> (i \div 3) % 2]}

\* NewEncryptedReader(reader, key), NewDecryptedReader(., decKey): nothing
\* has been read yet.
EncInit ==
    /\ LifeInit
    /\ InjIdle
    /\ BkIdle
    /\ RestIdle
    /\ encIn \in [data : Plaintexts, key : Keys, iv : IVs, decKey : Keys]
    /\ encRd = [ivPos |-> 0, srcPos |-> 0, stream |-> NewCFB(encIn.iv)]
    /\ decRd = [ivRead |-> FALSE, iv |-> <<>>, stream |-> <<>>, received |-> <<>>,
                returned |-> <<>>, eof |-> FALSE]

\* One DecryptedReader.Read(p) with len(p) = size, of an EncryptedReader
\* whose source gives at most gives bytes to one Read. The first Read takes
\* the IV with io.ReadFull: the singleUseReader hands over all of it. Every
\* Read then asks the MultiReader for size bytes: the source's bytes pass
\* through the encrypter's stream and then through the decrypter's.
DecRead(size, gives) ==
    /\ ~decRd.eof
    /\ LET iv == IF decRd.ivRead THEN decRd.iv ELSE encIn.iv
           mine == IF decRd.ivRead THEN decRd.stream ELSE NewCFB(iv)
           got == IF decRd.ivRead THEN decRd.received ELSE decRd.received \o encIn.iv
           left == Len(encIn.data) - encRd.srcPos
           n == IF left < gives THEN (IF left < size THEN left ELSE size)
                ELSE (IF gives < size THEN gives ELSE size)
           plain == SubSeq(encIn.data, encRd.srcPos + 1, encRd.srcPos + n)
           enc == XORKeyStream(encRd.stream, encIn.key, plain, FALSE)
           dec == XORKeyStream(mine, encIn.decKey, enc.dst, TRUE)
       IN /\ encRd' = [ivPos |-> BlockSize, srcPos |-> encRd.srcPos + n,
                       stream |-> enc.cfb]
          /\ decRd' = [ivRead |-> TRUE, iv |-> iv, stream |-> dec.cfb,
                       received |-> got \o enc.dst,
                       returned |-> decRd.returned \o dec.dst,
                       eof |-> left = 0]
    /\ UNCHANGED encIn
    /\ UNCHANGED besidesEnc

EncNext == \E size \in 1..MaxChunk, gives \in 1..MaxChunk : DecRead(size, gives)

EncSpec == EncInit /\ [][EncNext]_vars

----------------------------------------------------------------------------
(* Stack names: isValidStackName, DeploymentConfig.Validate and the head of *)
(* DeploymentsHandler.Create                                                *)

\* strings.TrimSpace on the white space the inputs hold.
RECURSIVE TrimSpace(_)
TrimSpace(str) ==
    IF Len(str) = 0 THEN str
    ELSE IF CharAt(str, 1) \in {" ", "\t"} THEN TrimSpace(SubSeq(str, 2, Len(str)))
    ELSE IF CharAt(str, Len(str)) \in {" ", "\t"}
    THEN TrimSpace(SubSeq(str, 1, Len(str) - 1))
    ELSE str

\* A nil *NewtConfig.
NilNewtConfig == [Endpoint |-> "nil"]

NewtConfigValidate(nc) ==
    IF TrimSpace(nc.Endpoint) = "" THEN [kind |-> "newt endpoint is required"]
    ELSE IF TrimSpace(nc.NewtID) = "" THEN [kind |-> "newt ID is required"]
    ELSE IF TrimSpace(nc.Secret) = "" THEN [kind |-> "newt secret is required"]
    ELSE NoError

ErrDeploymentTemplateRequired == [kind |-> "template ID is required"]
ErrDeploymentStackNameRequired == [kind |-> "stack name is required"]
ErrDeploymentInvalidStackName == [kind |-> "invalid stack name format"]
ErrNewtConfigRequired ==
    [kind |-> "newt configuration is required when newt is enabled"]

DeploymentConfigValidate(dc) ==
    IF TrimSpace(dc.TemplateID) = "" THEN ErrDeploymentTemplateRequired
    ELSE IF TrimSpace(dc.StackName) = "" THEN ErrDeploymentStackNameRequired
    ELSE IF ~isValidStackName(dc.StackName) THEN ErrDeploymentInvalidStackName
    ELSE IF dc.IncludeNewt /\ dc.NewtConfig = NilNewtConfig THEN ErrNewtConfigRequired
    ELSE IF dc.NewtConfig # NilNewtConfig THEN NewtConfigValidate(dc.NewtConfig)
    ELSE NoError

\* The request bodies: every name of at most two characters over a small
\* alphabet, and longer names on both sides of the length limit.
NameAlphabet == {"a", "Z", "7", "-", "_", " ", "@", "."}

RECURSIVE Repeat(_, _)
Repeat(str, n) == IF n = 0 THEN "" ELSE str \o Repeat(str, n - 1)

RequestedNames ==
    {""} \cup NameAlphabet \cup {x \o y : x \in NameAlphabet, y \in NameAlphabet}
         \cup {"my-app_1", "-leading", "My App", "9lives", "_hidden",
               Repeat("a", 63), Repeat("a", 64), Repeat("a", 62) \o "-",
               "-" \o Repeat("a", 62), Repeat("a", 63) \o " "}

RequestedConfigs ==
    [TemplateID : {"nginx", " "},
     StackName : RequestedNames,
     IncludeNewt : BOOLEAN,
     NewtConfig : {NilNewtConfig,
                   [Endpoint |-> "https://pangolin.example.com", NewtID |-> "abc",
                    Secret |-> "s3cret", Image |-> ""],
                   [Endpoint |-> "https://pangolin.example.com", NewtID |-> "abc",
                    Secret |-> " ", Image |-> ""]}]

\* Create up to the answer to Validate: 400 with the error, or the request
\* goes on to the template and the table.
CreateValidate ==
    /\ nmRes = <<>>
    /\ LET err == DeploymentConfigValidate(nmCfg)
       IN nmRes' = [error |-> err,
                    code |-> IF err # NoError THEN "validation_error" ELSE "validated"]
    /\ UNCHANGED nmCfg
    /\ UNCHANGED besidesName

NameInit ==
    /\ LifeInit
    /\ InjIdle
    /\ BkIdle
    /\ EncIdle
    /\ SyncIdle
    /\ MonIdle
    /\ CleanIdle
    /\ nmCfg \in RequestedConfigs
    /\ nmRes = <<>>

NameNext == CreateValidate

NameSpec == NameInit /\ [][NameNext]_vars

----------------------------------------------------------------------------
(* Retention: Scheduler.CleanupOldBackups *)

\* Instants are a day of the year 2024, counted from 0 for January 1, a
\* Monday, and an hour of that day.
DaysInMonth == <<31, 29, 31, 30, 31, 30, 31, 31, 30, 31, 30, 31>>

RECURSIVE DaysBefore(_)
DaysBefore(month) ==
    IF month = 1 THEN 0 ELSE DaysBefore(month - 1) + DaysInMonth[month - 1]

\* time.Date(2024, month, day, hour, ...); a day past the end of the month
\* runs on into the next, as time.Date normalises it.
Date(month, day, hour) == [day |-> DaysBefore(month) + day - 1, hour |-> hour]

MonthOf(t) == CHOOSE m \in 1..12 : DaysBefore(m) <= t.day /\ t.day < DaysBefore(m) + DaysInMonth[m]

\* strftime('%d', t), strftime('%w', t) with 0 for Sunday, strftime('%H', t)
DayOfMonth(t) == t.day - DaysBefore(MonthOf(t)) + 1
Weekday(t) == (t.day + 1) % 7
HourOf(t) == t.hour

\* t.AddDate(0, months, days)
AddDate(t, months, days) ==
    [day |-> Date(MonthOf(t) + months, DayOfMonth(t), t.hour).day + days,
     hour |-> t.hour]

\* created_at < $1
Before(t, u) == t.day < u.day \/ (t.day = u.day /\ t.hour < u.hour)

BackupTypeManual == "manual"
BackupTypeScheduled == "scheduled"

AtMidnight(t) == HourOf(t) = 0
OnSunday(t) == Weekday(t) = 0
OnTheFirst(t) == DayOfMonth(t) = 1

\* The condition each statement keeps rows by.
AlignedTo(t, bucket) ==
    CASE bucket = "daily" -> AtMidnight(t)
      [] bucket = "weekly" -> OnSunday(t)
      [] bucket = "monthly" -> OnTheFirst(t)

\* DELETE FROM backups WHERE type = 'scheduled' AND created_at < $1 AND
\* <the row is not aligned to the bucket>
DeleteOldUnaligned(tbl, cutoff, bucket) ==
    [i \in {j \in DOMAIN tbl :
              ~(/\ tbl[j].type = BackupTypeScheduled
                /\ Before(tbl[j].created_at, cutoff)
                /\ ~AlignedTo(tbl[j].created_at, bucket))} |-> tbl[i]]

cutoffDaily == AddDate(clnNow, 0, -clnRet.Daily)
cutoffWeekly == AddDate(clnNow, 0, -(clnRet.Weekly * 7))
cutoffMonthly == AddDate(clnNow, -clnRet.Monthly, 0)

\* The first statement; an error returns.
CleanDaily(ok) ==
    /\ clnPc = "daily"
    /\ IF ok
       THEN /\ clnTbl' = DeleteOldUnaligned(clnTbl, cutoffDaily, "daily")
            /\ clnPc' = "weekly"
       ELSE /\ clnPc' = "error"
            /\ UNCHANGED clnTbl
    /\ UNCHANGED <<clnNow, clnRet, clnIn>>
    /\ UNCHANGED besidesClean

\* The second statement; an error returns.
CleanWeekly(ok) ==
    /\ clnPc = "weekly"
    /\ IF ok
       THEN /\ clnTbl' = DeleteOldUnaligned(clnTbl, cutoffWeekly, "weekly")
            /\ clnPc' = "monthly"
       ELSE /\ clnPc' = "error"
            /\ UNCHANGED clnTbl
    /\ UNCHANGED <<clnNow, clnRet, clnIn>>
    /\ UNCHANGED besidesClean

\* The third statement, whose error is the result.
CleanMonthly(ok) ==
    /\ clnPc = "monthly"
    /\ IF ok
       THEN /\ clnTbl' = DeleteOldUnaligned(clnTbl, cutoffMonthly, "monthly")
            /\ clnPc' = "done"
       ELSE /\ clnPc' = "error"
            /\ UNCHANGED clnTbl
    /\ UNCHANGED <<clnNow, clnRet, clnIn>>
    /\ UNCHANGED besidesClean

\* The instants backups of the table were made at: of every alignment, and
\* on both sides of the windows.
CreatedTimes ==
    {Date(10, 29, 3), Date(10, 20, 14), Date(10, 15, 0), Date(10, 1, 10),
     Date(9, 29, 0), Date(9, 1, 0), Date(6, 12, 5)}

BackupRows == [type : {BackupTypeManual, BackupTypeScheduled}, created_at : CreatedTimes]

Retentions == [Daily : {7, 30}, Weekly : {1, 4}, Monthly : {1, 3}]

CleanInit ==
    /\ LifeInit
    /\ InjIdle
    /\ BkIdle
    /\ EncIdle
    /\ SyncIdle
    /\ MonIdle
    /\ NameIdle
    /\ clnNow = Date(10, 30, 9)
    /\ clnRet \in Retentions
    /\ clnIn \in [1..MaxCleaned -> BackupRows]
    /\ clnTbl = clnIn
    /\ clnPc = "daily"

CleanNext ==
    \/ \E ok \in BOOLEAN : CleanDaily(ok)
    \/ \E ok \in BOOLEAN : CleanWeekly(ok)
    \/ \E ok \in BOOLEAN : CleanMonthly(ok)

CleanSpec == CleanInit /\ [][CleanNext]_vars

----------------------------------------------------------------------------
(* Monitor: Subscribe, Unsubscribe and publishEvent on one stack name *)

\* The goroutines that call publishEvent: monitorEvents (handleDockerEvent)
\* and periodicStatusUpdate (sendStatusUpdates).
Publishers == {"monitorEvents", "periodicStatusUpdate"}

\* A nil slice: no backing array.
NilSlice == [arr |-> 0, len |-> 0]

Cap(slice) == IF slice.arr = 0 THEN 0 ELSE Len(monArrays[slice.arr])

\* The capacity append grows a full slice to.
GrownCap(slice) == IF Cap(slice) = 0 THEN 1 ELSE 2 * Cap(slice)

NoChannel == 0

\* make(chan *MonitorEvent, 100), the buffer cut down to ChanCap
NewChannel == [closed |-> FALSE, buffered |-> 0]

PublishIdle == [pc |-> "idle", arr |-> 0, len |-> 0, i |-> 0, outcome |-> "none"]

\* Subscribe, under m.mu.Lock: a new channel is appended, in place when the
\* backing array has room, else in a new array the elements are copied to.
Subscribe ==
    /\ Len(monChans) < MaxChans
    /\ \A p \in Publishers : monPub[p].outcome # "panic"
    /\ LET ch == Len(monChans) + 1
       IN /\ monChans' = Append(monChans, NewChannel)
          /\ IF monSubs.len < Cap(monSubs)
             THEN /\ monArrays' = [monArrays EXCEPT ![monSubs.arr][monSubs.len + 1] = ch]
                  /\ monSubs' = [monSubs EXCEPT !.len = monSubs.len + 1]
             ELSE LET cap == GrownCap(monSubs)
                      grown == [i \in 1..cap |->
                                  IF i <= monSubs.len THEN monArrays[monSubs.arr][i]
                                  ELSE IF i = monSubs.len + 1 THEN ch ELSE NoChannel]
                  IN /\ monArrays' = [a \in DOMAIN monArrays \cup {cap} |->
                                         IF a = cap THEN grown ELSE monArrays[a]]
                     /\ monSubs' = [arr |-> cap, len |-> monSubs.len + 1]
    /\ UNCHANGED monPub
    /\ UNCHANGED besidesMon

\* Unsubscribe(stackName, ch), under m.mu.Lock: the first element equal to
\* ch is closed and cut out by moving the elements after it down one place
\* in the same backing array.
Unsubscribe(ch) ==
    /\ ch \in 1..Len(monChans)
    /\ \A p \in Publishers : monPub[p].outcome # "panic"
    /\ LET found == {i \in 1..monSubs.len : monArrays[monSubs.arr][i] = ch}
       IN IF found = {}
          THEN UNCHANGED <<monArrays, monSubs, monChans>>
          ELSE LET at == CHOOSE i \in found : \A j \in found : i <= j
               IN /\ monChans' = [monChans EXCEPT ![ch].closed = TRUE]
                  /\ monArrays' =
                        [monArrays EXCEPT ![monSubs.arr] =
                            [i \in 1..Len(@) |->
                                IF i >= at /\ i < monSubs.len THEN @[i + 1] ELSE @[i]]]
                  /\ monSubs' = [monSubs EXCEPT !.len = monSubs.len - 1]
    /\ UNCHANGED monPub
    /\ UNCHANGED besidesMon

\* publishEvent, under m.mu.RLock: the slice is copied, not its elements.
PublishBegin(p) ==
    /\ monPub[p].pc = "idle"
    /\ \A q \in Publishers : monPub[q].outcome # "panic"
    /\ monPub' = [monPub EXCEPT ![p] =
                     IF monSubs.len = 0 THEN PublishIdle
                     ELSE [pc |-> "sending", arr |-> monSubs.arr, len |-> monSubs.len,
                           i |-> 1, outcome |-> "none"]]
    /\ UNCHANGED <<monArrays, monSubs, monChans>>
    /\ UNCHANGED besidesMon

\* publishEvent, one turn of its loop with the lock released: the element is
\* read from the backing array and select { case subscriber <- event:
\* default: } runs. A send on a closed channel panics, which ends the
\* process.
PublishSend(p) ==
    /\ monPub[p].pc = "sending"
    /\ \A q \in Publishers : monPub[q].outcome # "panic"
    /\ LET call == monPub[p]
           subscriber == monArrays[call.arr][call.i]
           outcome == IF monChans[subscriber].closed THEN "panic"
                      ELSE IF monChans[subscriber].buffered < ChanCap THEN "sent"
                      ELSE "dropped"
       IN /\ monChans' = IF outcome = "sent"
                         THEN [monChans EXCEPT ![subscriber].buffered = @ + 1]
                         ELSE monChans
          /\ monPub' = [monPub EXCEPT ![p] =
                           IF outcome = "panic" THEN [call EXCEPT !.outcome = outcome]
                           ELSE IF call.i = call.len
                           THEN [PublishIdle EXCEPT !.outcome = outcome]
                           ELSE [call EXCEPT !.i = call.i + 1, !.outcome = outcome]]
    /\ UNCHANGED <<monArrays, monSubs>>
    /\ UNCHANGED besidesMon

MonInit ==
    /\ LifeInit
    /\ InjIdle
    /\ BkIdle
    /\ EncIdle
    /\ SyncIdle
    /\ NameIdle
    /\ CleanIdle
    /\ monArrays = <<>>
    /\ monSubs = NilSlice
    /\ monChans = <<>>
    /\ monPub = [p \in Publishers |-> PublishIdle]

MonNext ==
    \/ Subscribe
    \/ \E ch \in 1..MaxChans : Unsubscribe(ch)
    \/ \E p \in Publishers : PublishBegin(p)
    \/ \E p \in Publishers : PublishSend(p)

MonSpec == MonInit /\ [][MonNext]_vars

----------------------------------------------------------------------------
(* SyncService: StartPeriodicSync, StopPeriodicSync and syncLoop *)

\* No StartPeriodicSync call is between its check and its return.
NoneStarting == [set |-> 0, launch |-> 0]

\* The process has ended in a panic.
Crashed == syncLast = "panic"

\* StartPeriodicSync, the check: IsRunning() under the read lock; the call
\* returns when it is true.
StartCheck ==
    /\ ~Crashed
    /\ starting.set + starting.launch < MaxStarts
    /\ IF isRunning
       THEN /\ syncLast' = "already_running"
            /\ UNCHANGED starting
       ELSE /\ starting' = [starting EXCEPT !.set = @ + 1]
            /\ syncLast' = "none"
    /\ UNCHANGED <<isRunning, stopClosed, syncLoops>>
    /\ UNCHANGED besidesSync

\* StartPeriodicSync: isRunning = true under the lock.
StartSet ==
    /\ ~Crashed
    /\ starting.set > 0
    /\ isRunning' = TRUE
    /\ starting' = [set |-> starting.set - 1, launch |-> starting.launch + 1]
    /\ syncLast' = "none"
    /\ UNCHANGED <<stopClosed, syncLoops>>
    /\ UNCHANGED besidesSync

\* StartPeriodicSync: go ss.syncLoop(interval), and the return.
StartLaunch ==
    /\ ~Crashed
    /\ starting.launch > 0
    /\ syncLoops < MaxLoops
    /\ syncLoops' = syncLoops + 1
    /\ starting' = [starting EXCEPT !.launch = @ - 1]
    /\ syncLast' = "started"
    /\ UNCHANGED <<isRunning, stopClosed>>
    /\ UNCHANGED besidesSync

\* StopPeriodicSync, all of it under the lock. close on a closed channel
\* panics.
StopPeriodicSync ==
    /\ ~Crashed
    /\ IF ~isRunning
       THEN /\ syncLast' = "not_running"
            /\ UNCHANGED <<isRunning, stopClosed>>
       ELSE IF stopClosed
       THEN /\ syncLast' = "panic"
            /\ UNCHANGED <<isRunning, stopClosed>>
       ELSE /\ stopClosed' = TRUE
            /\ isRunning' = FALSE
            /\ syncLast' = "stopped"
    /\ UNCHANGED <<syncLoops, starting>>
    /\ UNCHANGED besidesSync

\* syncLoop, case <-ticker.C: SyncAll
LoopSync ==
    /\ ~Crashed
    /\ syncLoops > 0
    /\ syncLast' = "synced"
    /\ UNCHANGED <<isRunning, stopClosed, syncLoops, starting>>
    /\ UNCHANGED besidesSync

\* syncLoop, case <-ss.stopChan: a receive on the closed channel, and the
\* return.
LoopReturn ==
    /\ ~Crashed
    /\ syncLoops > 0
    /\ stopClosed
    /\ syncLoops' = syncLoops - 1
    /\ syncLast' = "loop_returned"
    /\ UNCHANGED <<isRunning, stopClosed, starting>>
    /\ UNCHANGED besidesSync

SyncInit ==
    /\ LifeInit
    /\ InjIdle
    /\ BkIdle
    /\ EncIdle
    /\ NameIdle
    /\ CleanIdle
    /\ MonIdle
    /\ isRunning = FALSE
    /\ stopClosed = FALSE
    /\ syncLoops = 0
    /\ starting = NoneStarting
    /\ syncLast = "none"

SyncNext ==
    \/ StartCheck
    \/ StartSet
    \/ StartLaunch
    \/ StopPeriodicSync
    \/ LoopSync
    \/ LoopReturn

SyncSpec == SyncInit /\ [][SyncNext]_vars

----------------------------------------------------------------------------
(* The transition table of the lifecycle, as the specification states it *)

LegalSource(op, status) ==
    CASE op = "start" -> status \in {StatusStopped, StatusFailed}
      [] op = "stop" -> status \in {StatusRunning, StatusDeploying}
      [] op = "restart" -> status \in {StatusRunning, StatusStopped}
      [] op = "delete" -> status \in {StatusStopped, StatusFailed}
      [] OTHER -> FALSE

----------------------------------------------------------------------------
(* Claims about the deployment lifecycle *)

\* C1: a delete answers success only when the row it removed was stopped or
\* failed, it does remove a stopped or failed deployment, and a delete of a
\* running, pending or deploying deployment is answered InvalidTransition
\* with the row still in the table.
C1_DeleteOnlyFromStoppedOrFailed ==
    (last.op = "delete" /\ last.from \in DeploymentStatus) =>
        IF LegalSource("delete", last.from)
        THEN last.code = "ok"
        ELSE last.code = "invalid_transition" /\ last.id \in DOMAIN deployments

\* C2: no step of any execution takes a deployment's status from pending
\* straight to running.
C2_NeverPendingToRunning ==
    [][\A d \in DepIds :
          ~(StatusOf(deployments, d) = StatusPending
            /\ StatusOf(deployments', d) = StatusRunning)]_vars

\* C3: status writes are compare-and-swap: the background deploy task's
\* write of running changes the status only of a row that is still
\* deploying, so it never overwrites a transition (such as a stop) that
\* succeeded between the task's two writes.
C3_StatusWritesAreConditioned ==
    [][\A t \in BagToSet(tasks) :
          (/\ TaskSetRunning(t)
           /\ t.id \in DOMAIN deployments
           /\ deployments'[t.id].status # deployments[t.id].status)
              => deployments[t.id].status = StatusDeploying]_vars

\* C4: a start, stop or restart answered while the deployment's status is
\* outside the operation's legal sources is answered InvalidTransition and
\* leaves the status as it was.
C4_IllegalSourceRejected ==
    (/\ last.op \in {"start", "stop", "restart"}
     /\ last.from \in DeploymentStatus
     /\ ~LegalSource(last.op, last.from))
        => (last.code = "invalid_transition" /\ last.to = last.from)

\* C5: when the compose command of a start or restart (requested from a
\* status the operation is legal in) fails, the handler leaves the deployment
\* failed and a log row for it has been written.
C5_ExecFailureMarksFailed ==
    (/\ last.op \in {"start", "restart"}
     /\ last.code = "exec_failed"
     /\ LegalSource(last.op, last.from))
        => (/\ last.to = StatusFailed
            /\ \E i \in 1..Len(logs) :
                  logs[i].deployment_id = last.id /\ logs[i].log_level = "error")

----------------------------------------------------------------------------
(* The injector's contract *)

\* C6: ProcessCompose is idempotent: run on its own output it returns a
\* document equal to its input, so the second pass adds no service, no
\* network, no network membership and replaces nothing.
C6_ProcessComposeIdempotent ==
    (injOp = "process" /\ injPass >= 2) => injOut = injIn

\* A second pass over a document whose first pass appended app_network to a
\* service's own networks and whose newt service carries the configured image.
C6_Witness ==
    /\ injOp = "process"
    /\ injPass = 2
    /\ "web" \in DOMAIN injOut.services
    /\ "networks" \in DOMAIN injOut.services["web"]
    /\ injOut.services["web"].networks = <<"backend", "app_network">>
    /\ injOut.services["newt"].image = "registry.local/tunnel-agent:1"

\* The newt service of the text handed to the last ProcessCompose pass fails
\* validateNewtService.
NewtFailsCheck ==
    /\ "newt" \in DOMAIN injIn.services
    /\ validateNewtService(UnmarshalService(injIn.services["newt"])) # NoError

\* C7: when the input holds a newt service that fails the required-fields
\* check, ProcessCompose replaces it wholesale with the synthesized service
\* and the report it returns has Valid = TRUE.
C7_FailingNewtReplacedAndValid ==
    (injOp = "process" /\ NewtFailsCheck)
        => /\ injOut.services["newt"] = MarshalService(createNewtService(injCfg))
           /\ injRes.Valid

\* The name of an environment entry: the part before its first "=".
EnvKey(entry) ==
    LET eqs == {i \in 1..Len(entry) : SubSeq(entry, i, i) = "="}
    IN IF eqs = {} THEN entry
       ELSE SubSeq(entry, 1, (CHOOSE i \in eqs : \A j \in eqs : i <= j) - 1)

\* The required variables the environment list of a service node has no
\* entry for.
Lacks(node) ==
    LET env == IF "environment" \in DOMAIN node THEN node.environment ELSE <<>>
    IN {name \in {"PANGOLIN_ENDPOINT", "NEWT_ID", "NEWT_SECRET"} :
           \A i \in 1..Len(env) : EnvKey(env[i]) # name}

\* The newt node of the current text has an image naming newt and the
\* runtime-socket mount, and lacks exactly one required variable.
LacksOneVariable ==
    /\ "newt" \in DOMAIN CurrentText.services
    /\ LET node == CurrentText.services["newt"]
       IN /\ "image" \in DOMAIN node /\ Contains(node.image, "newt")
          /\ "volumes" \in DOMAIN node
          /\ \E i \in 1..Len(node.volumes) : node.volumes[i] = SocketMount
          /\ Cardinality(Lacks(node)) = 1

\* C8: ValidateCompose on a document whose newt service has a recognizable
\* image and the socket mount but lacks exactly one of PANGOLIN_ENDPOINT,
\* NEWT_ID, NEWT_SECRET reports Valid = FALSE with an issue that names the
\* missing variable, and leaves the document as it was.
C8_MissingVariableReported ==
    (injOp = "validate" /\ LacksOneVariable)
        => /\ ~injRes.Valid
           /\ \E i \in 1..Len(injRes.Issues) :
                 /\ injRes.Issues[i].err.kind = "missing_env"
                 /\ Lacks(CurrentText.services["newt"]) \subseteq injRes.Issues[i].err.names
           /\ injDoc = Unmarshal(CurrentText)

\* ValidateCompose has reported on a newt service that lacks NEWT_ID only,
\* next to a user service.
C8_Witness ==
    /\ injOp = "validate"
    /\ LacksOneVariable
    /\ Lacks(CurrentText.services["newt"]) = {"NEWT_ID"}
    /\ "web" \in DOMAIN CurrentText.services
    /\ ~injRes.Valid

\* The networks the output document declares.
DeclaredNetworks ==
    IF "networks" \in DOMAIN injOut THEN DOMAIN injOut.networks ELSE {}

\* C9: after ProcessCompose every service of the output lists at least one
\* network that the output's top-level networks mapping declares, also for
\* inputs that declare networks none of which is app_network.
C9_EveryServiceOnDeclaredNetwork ==
    (injOp = "process")
        => \A n \in DOMAIN injOut.services :
              /\ "networks" \in DOMAIN injOut.services[n]
              /\ \E i \in 1..Len(injOut.services[n].networks) :
                    injOut.services[n].networks[i] \in DeclaredNetworks

\* The networks a service node of a text lists.
NetworksOf(node) ==
    IF "networks" \in DOMAIN node
    THEN {node.networks[i] : i \in 1..Len(node.networks)} ELSE {}

\* A key of an input node is kept: the output node holds it with the same
\* value, or the input held it with an empty value.
KeyKept(inNode, outNode, key) ==
    \/ key \in ServiceFields /\ IsZero(key, inNode[key])
    \/ key \in DOMAIN outNode /\ outNode[key] = inNode[key]

\* C10: ProcessCompose keeps every service other than newt, with all its
\* fields other than the network list unchanged and with every network it
\* listed, and every output service is a member of app_network.
C10_OtherServicesPreserved ==
    (injOp = "process")
        => /\ \A n \in DOMAIN injIn.services \ {"newt"} :
                 /\ n \in DOMAIN injOut.services
                 /\ \A key \in DOMAIN injIn.services[n] \ {"networks"} :
                       KeyKept(injIn.services[n], injOut.services[n], key)
                 /\ NetworksOf(injIn.services[n]) \subseteq NetworksOf(injOut.services[n])
           /\ \A n \in DOMAIN injOut.services :
                 "app_network" \in NetworksOf(injOut.services[n])

\* What ProcessCompose does to the current text, for comparison with the
\* preview of the same text.
ProcessAddsOrReplacesNewt ==
    LET before == Unmarshal(CurrentText).services
    IN "newt" \notin DOMAIN before \/ validateNewtService(before["newt"]) # NoError

ProcessDeclaresDefaultNetwork ==
    /\ "app_network" \notin DOMAIN Unmarshal(CurrentText).networks
    /\ "app_network" \in DOMAIN ProcessCompose(injCfg, CurrentText).compose.networks

ProcessAppendsMembership ==
    LET before == Unmarshal(CurrentText).services
        after == ProcessCompose(injCfg, CurrentText).compose.services
    IN {n \in DOMAIN before :
           /\ \A i \in 1..Len(before[n].networks) : before[n].networks[i] # "app_network"
           /\ \E i \in 1..Len(after[n].networks) : after[n].networks[i] = "app_network"}

\* The services the preview names as gaining a network membership.
PreviewNamedServices ==
    UNION {injRes.changes[i].names :
              i \in {j \in 1..Len(injRes.changes) :
                        injRes.changes[j].kind = "Add network configuration to services"}}

\* C11: PreviewNewtInjection leaves its input unchanged and reports exactly
\* the changes ProcessCompose makes on the same input: the newt service is
\* reported iff it is added or replaced, the default network iff it is
\* declared, a service is named iff app_network is appended to it, and no
\* change is reported iff the output of ProcessCompose equals its input.
C11_PreviewMatchesProcess ==
    (injOp = "preview")
        => /\ injDoc = Unmarshal(CurrentText)
           /\ injRes.will_add_newt <=> ProcessAddsOrReplacesNewt
           /\ injRes.will_add_network <=> ProcessDeclaresDefaultNetwork
           /\ PreviewNamedServices = ProcessAppendsMembership
           /\ (Len(injRes.changes) = 0)
                 <=> (ProcessCompose(injCfg, CurrentText).content = CurrentText)

----------------------------------------------------------------------------
(* The backup pipeline's contract *)

\* C12: when a step of the capture failed, the record's status is failed
\* once the background task has finished, not completed.
C12_FailedCaptureEndsFailed ==
    [][\A t \in btasks :
          (BackupDeferred(t) /\ t.failed /\ t.id \in DOMAIN backups')
              => backups'[t.id].status = BackupStatusFailed]_vars

\* C13: a backup record whose status is completed has a non-empty storage
\* path that names an existing archive file, and has completed_at set.
C13_CompletedHasArchive ==
    \A id \in DOMAIN backups :
        backups[id].status = BackupStatusCompleted
            => /\ backups[id].storage_path # NoPath
               /\ backups[id].storage_path \in DOMAIN archives
               /\ backups[id].completed_at # NullTime

\* C14: when a capture that failed has finished, neither the staging
\* directory of its ID nor a partly written archive file for it exists.
C14_FailedCaptureLeavesNothing ==
    [][\A t \in btasks :
          (BackupDeferred(t) /\ t.failed)
              => /\ t.id \notin staging'
                 /\ t.id \in DOMAIN archives' => archives'[t.id].whole]_vars

\* A create request was refused and wrote nothing.
CreateRefused ==
    /\ bkLast'.op = "create"
    /\ bkLast'.code \notin {"ok", "created"}
    /\ UNCHANGED <<backups, staging, btasks>>

\* C15: creating a backup whose resolved deployment list is empty fails
\* before anything is written, on both entry points: no record, no staging
\* directory, no background task.
C15_EmptySelectionRefused ==
    [][/\ \A encrypted \in BOOLEAN, mkdirOk \in BOOLEAN :
             ManagerCreateBackup({}, encrypted, mkdirOk) => CreateRefused
       /\ \A encrypted \in BOOLEAN :
             HttpCreateBackup(TRUE, {}, FALSE, encrypted) => CreateRefused]_vars

\* A restore request was refused and started nothing.
RestoreRefused ==
    /\ bkLast'.op = "restore"
    /\ bkLast'.code # "ok"
    /\ UNCHANGED <<rtasks, scratch>>

\* C16: a restore requested for a backup whose status is creating or failed
\* returns an error and starts no background restore, on both entry points.
C16_RestoreNeedsCompleted ==
    [][\A config \in RestoreConfigs :
          (/\ ManagerRestoreBackup(config) \/ HttpRestore(config)
           /\ config.BackupID \in DOMAIN backups
           /\ backups[config.BackupID].status
                 \in {BackupStatusCreating, BackupStatusFailed})
              => RestoreRefused]_vars

\* Manager.RestoreBackup has just refused a backup whose capture failed and
\* whose deferred call has not run yet.
C16_Witness ==
    /\ bkLast.op = "restore" /\ bkLast.via = "manager"
    /\ bkLast.code = "not_completed"
    /\ backups[bkLast.id].status = BackupStatusFailed
    /\ rtasks = {}

\* C17: a restore request with selective = true and an empty deployment
\* subset is refused before any background restore is started, on both
\* entry points.
C17_EmptySelectiveRefused ==
    [][\A config \in RestoreConfigs :
          (/\ ManagerRestoreBackup(config) \/ HttpRestore(config)
           /\ config.Selective /\ config.DeploymentIDs = {})
              => RestoreRefused]_vars

\* C18: a restore never extracts an archive whose bytes differ from the
\* bytes written when the backup was created.
C18_NoDamagedArchiveExtracted ==
    \A id \in DOMAIN scratch : scratch[id].intact

\* C19: for a completed backup created with encrypted = true, the stored
\* archive is the encrypted form of the archive bytes and the key store
\* holds a key file for the backup's ID.
C19_EncryptedBackupIsEncrypted ==
    \A id \in DOMAIN backups :
        (/\ backups[id].encrypted
         /\ backups[id].status = BackupStatusCompleted
         /\ backups[id].storage_path \in DOMAIN archives)
            => /\ archives[backups[id].storage_path].encrypted
               /\ id \in keyfiles

----------------------------------------------------------------------------
(* The encryption layer's contract *)

\* C20: reading the decrypter of the encrypter of data to the end yields
\* data when the keys are equal, however the reads are split; the encrypted
\* stream is the IV followed by as many bytes as data has, and the decrypter
\* takes exactly that IV; with a different key the result differs from data
\* when data is not empty.
C20_EncryptDecryptRoundTrip ==
    decRd.eof
        => /\ Len(decRd.received) = BlockSize + Len(encIn.data)
           /\ SubSeq(decRd.received, 1, BlockSize) = encIn.iv
           /\ decRd.iv = encIn.iv
           /\ encIn.decKey = encIn.key => decRd.returned = encIn.data
           /\ (encIn.decKey # encIn.key /\ Len(encIn.data) > 0)
                 => decRd.returned # encIn.data

----------------------------------------------------------------------------
(* Uniqueness of stack names *)

\* A create request was refused: no record written, no deploy task started.
CreateRejected(code) ==
    /\ last'.op = "create" /\ last'.code = code
    /\ UNCHANGED <<deployments, tasks>>

\* C21: no two deployment records have the same stack name, and a create
\* whose stack name an existing record has is rejected without writing a
\* record or starting a deploy task, at the existence check and at the
\* INSERT of a create that passed the check together with another one.
C21_StackNamesUnique ==
    [][/\ \A d1, d2 \in DOMAIN deployments' :
             deployments'[d1].stack_name = deployments'[d2].stack_name => d1 = d2
       /\ \A name \in StackNames, newt \in BOOLEAN :
             (CreateBegin(name, newt, TRUE) /\ StackNameExists(deployments, name))
                 => CreateRejected("conflict")
       /\ \A r \in BagToSet(reqs) :
             (CreateInsert(r) /\ StackNameExists(deployments, r.stack_name))
                 => CreateRejected("db_error")]_vars

\* The INSERT of a create has just failed on the stack name alone: no
\* record has its ID, and another create's record is in the table.
C21_Witness ==
    /\ last.op = "create" /\ last.code = "db_error"
    /\ last.id \notin DOMAIN deployments
    /\ deployments # <<>>

----------------------------------------------------------------------------
(* The format of stack names *)

\* The names the specification accepts: 1 to 63 characters, each an ASCII
\* letter, a digit, "-" or "_", the first a letter or a digit.
WellFormedName(name) ==
    /\ Len(name) \in 1..63
    /\ \A i \in 1..Len(name) :
          CharAt(name, i) \in LowerCase \cup UpperCase \cup Digits \cup {"-", "_"}
    /\ CharAt(name, 1) \in LowerCase \cup UpperCase \cup Digits

----------------------------------------------------------------------------
(* The log stream of a deployment *)

\* logs' keeps what logs held for deployment d, or holds nothing for d.
LogsKept(d) ==
    LET before == LogsOf(logs, d)
        after == LogsOf(logs', d)
    IN \/ after = <<>>
       \/ Len(after) >= Len(before) /\ SubSeq(after, 1, Len(before)) = before

\* C23: the log rows of one deployment are appended in non-decreasing
\* timestamp order, a row once appended is never changed, and a read of the
\* deployment's logs returns the rows in the order they were appended.
C23_LogsAppendedAndReadInOrder ==
    /\ [](\A d \in DepIds :
             LET rows == LogsOf(logs, d)
             IN \A i, j \in 1..Len(rows) :
                   i < j => rows[i].timestamp <= rows[j].timestamp)
    /\ [][\A d \in DepIds : LogsKept(d)]_vars
    /\ []((last.op = "logs" /\ last.code = "ok")
             => last.entries = LogsOf(logs, last.id))

----------------------------------------------------------------------------
(* Transient statuses *)

Transient(d) ==
    d \in DOMAIN deployments
        /\ deployments[d].status \in {StatusPending, StatusDeploying}

Settled(d) ==
    d \notin DOMAIN deployments
        \/ deployments[d].status \in {StatusRunning, StatusStopped, StatusFailed}

DeploymentsSettle == \A d \in DepIds : Transient(d) ~> Settled(d)

BackupsSettle ==
    \A b \in 1..MaxClock :
        (b \in DOMAIN backups /\ backups[b].status = BackupStatusCreating)
            ~> (b \notin DOMAIN backups
                   \/ backups[b].status \in {BackupStatusCompleted, BackupStatusFailed})

\* The compose command of a start, stop or restart of deployment d, then
\* pending or deploying, failed or was killed at its timeout.
TimedOut(d) ==
    /\ last.op \in {"start", "stop", "restart"}
    /\ last.code = "exec_failed"
    /\ last.id = d
    /\ last.from \in {StatusPending, StatusDeploying}

TimeoutsFail ==
    \A d \in DepIds :
        TimedOut(d) ~> (d \notin DOMAIN deployments
                           \/ deployments[d].status = StatusFailed)

\* C24: with the background goroutines kept running, a deployment that is
\* pending or deploying eventually is running, stopped or failed, a compose
\* command cut off at its timeout leading to failed, and a backup that is
\* creating eventually is completed or failed.
C24_NoTransientStatusForever ==
    DeploymentsSettle /\ TimeoutsFail /\ BackupsSettle

----------------------------------------------------------------------------
(* Deleted backups *)

\* Neither a record, nor an archive file, nor a staging directory of backup
\* id exists.
NothingLeftOf(id) ==
    /\ id \notin DOMAIN backups
    /\ ArchivePath(id) \notin DOMAIN archives
    /\ id \notin staging

\* C25: when DeleteBackup(id) has returned successfully, backup id has no
\* record, no archive file and no staging directory, and as long as no
\* create request makes a backup of that ID again none of them comes back,
\* whatever a capture of that backup still running does.
C25_DeletedBackupStaysDeleted ==
    [][\A id \in 1..MaxClock :
          /\ (ManagerDeleteBackup(id) /\ bkLast'.code = "ok") => NothingLeftOf(id)'
          /\ (NothingLeftOf(id) /\ ~(bkLast'.op = "create" /\ bkLast'.id = id))
                => NothingLeftOf(id)']_vars

----------------------------------------------------------------------------
(* The retention policy *)

Buckets == {"daily", "weekly", "monthly"}

\* The start of a bucket's retention window.
WindowStart(bucket) ==
    CASE bucket = "daily" -> cutoffDaily
      [] bucket = "weekly" -> cutoffWeekly
      [] bucket = "monthly" -> cutoffMonthly

\* C26: the clean-up deletes scheduled backups only; a scheduled backup
\* aligned to a bucket is kept while it is younger than that bucket's own
\* window, whatever the other buckets; one newer than every window is kept.
C26_BucketsPrunedIndependently ==
    \A i \in DOMAIN clnIn :
        LET b == clnIn[i]
        IN /\ b.type # BackupTypeScheduled => i \in DOMAIN clnTbl
           /\ \A bucket \in Buckets :
                 (AlignedTo(b.created_at, bucket)
                     /\ ~Before(b.created_at, WindowStart(bucket)))
                    => i \in DOMAIN clnTbl
           /\ (\A bucket \in Buckets : ~Before(b.created_at, WindowStart(bucket)))
                 => i \in DOMAIN clnTbl

----------------------------------------------------------------------------
(* The predicates of the Deployment model *)

\* C27: for the status of every deployment, CanStart is true exactly for
\* stopped and failed, CanStop exactly for running and deploying, CanRestart
\* exactly for running and stopped, and CanDelete exactly for stopped and
\* failed.
C27_PredicatesMatchTable ==
    \A d \in DOMAIN deployments :
        LET status == deployments[d].status
        IN /\ CanStart(status) <=> status \in {StatusStopped, StatusFailed}
           /\ CanStop(status) <=> status \in {StatusRunning, StatusDeploying}
           /\ CanRestart(status) <=> status \in {StatusRunning, StatusStopped}
           /\ CanDelete(status) <=> status \in {StatusStopped, StatusFailed}

----------------------------------------------------------------------------
(* Publishing to subscribers *)

\* C28: publishEvent never sends on a channel Unsubscribe has closed, and a
\* turn of its loop never waits: when the subscriber's buffer is full the
\* event is dropped and the loop goes on.
C28_PublishNeverPanicsNorBlocks ==
    /\ [](\A p \in Publishers : monPub[p].outcome # "panic")
    /\ [][\A p \in Publishers :
             (PublishSend(p)
                /\ ~monChans[monArrays[monPub[p].arr][monPub[p].i]].closed
                /\ monChans[monArrays[monPub[p].arr][monPub[p].i]].buffered = ChanCap)
                => /\ monPub'[p].outcome = "dropped"
                   /\ UNCHANGED monChans]_vars

----------------------------------------------------------------------------
(* Concurrent restores of one backup *)

\* Manager restores of backup id other than t that have extracted the
\* archive and have yet to read what they extracted.
OthersReading(t) ==
    {o \in rtasks \ {t} : o.via = "manager" /\ o.id = t.id /\ o.pc = "restore"}

\* C29: while a restore that has extracted a backup's archive is still to
\* read it, no other restore of that backup writes into or removes its
\* scratch directory; and once no restore of a backup runs any more its
\* scratch directory does not exist.
C29_RestoresDoNotInterfere ==
    /\ [][\A t \in rtasks :
             ((RestoreCleanup(t) \/ \E outcome \in {"rejected", "partly", "fully"} :
                                       RestoreExtract(t, outcome) /\ outcome # "rejected")
                 /\ t.id \in DOMAIN scratch)
                => OthersReading(t) = {}]_vars
    /\ [](\A id \in DOMAIN scratch :
             \E t \in rtasks : t.via = "manager" /\ t.id = id)

----------------------------------------------------------------------------
(* The periodic sync *)

\* No call is under way and every loop that was told to stop has returned.
SyncQuiet == starting = NoneStarting /\ ~(stopClosed /\ syncLoops > 0)

\* C30: whenever no start is under way and stopped loops have returned,
\* IsRunning() is true exactly when one sync loop is active; there is never
\* more than one loop; and no StopPeriodicSync call ends in a panic.
C30_OneLoopIffRunning ==
    /\ SyncQuiet => (isRunning <=> syncLoops = 1)
    /\ syncLoops <= 1
    /\ ~Crashed

====
